---- MODULE Spec2Model ----
(***************************************************************************)
(* A model of the battleo simulation engine (src/src/simulation.rs), its   *)
(* agents (src/src/agent.rs), genomes (src/src/genes.rs), resources        *)
(* (src/src/resource.rs) and the legacy engine's spatial query             *)
(* (src/src/simulation_core.rs).                                           *)
(*                                                                         *)
(* The source computes in f64.  The model computes in fixed point:         *)
(*   time, ages, timers  : ticks (delta_time = 1/60 s, so 60 ticks = 1.0)  *)
(*   fades               : sixtieths (1.0 = 60)                            *)
(*   positions, radii    : 1/60 world unit (so x += dx * delta_time adds   *)
(*                         dx world-units-per-second, truncated)           *)
(*   velocities, genes   : thousandths                                     *)
(*   energies            : millionths                                      *)
(* Divisions truncate toward zero.  NaN and infinities are not modelled.   *)
(* Vec indices are 1-based here and 0-based in the source.                 *)
(***************************************************************************)
EXTENDS Integers, Sequences, FiniteSets, TLC

VARIABLES
    agents,                 \* Simulation.agents: Seq of agent records
    resources,              \* Simulation.resources: Seq of resource records
    time,                   \* Simulation.time, in ticks
    resource_spawn_timer,   \* Simulation.resource_spawn_timer, in ticks
    spatial_grid,           \* Simulation.spatial_grid: cell -> Seq of agent indices
    THREAD_POOL_AVAILABLE,  \* static mut THREAD_POOL_AVAILABLE
    RAYON_INITIALIZED,      \* static mut RAYON_INITIALIZED
    hist,                   \* what the last operation did (history, not program state)
    steps,                  \* number of operations executed (bounds the exploration)
    probe                   \* argument/result record of a function applied on its own

vars == <<agents, resources, time, resource_spawn_timer, spatial_grid,
          THREAD_POOL_AVAILABLE, RAYON_INITIALIZED, hist, steps, probe>>

-----------------------------------------------------------------------------
(* Scales and arithmetic                                                   *)

TicksPerSecond == 60
PosScale == TicksPerSecond
GeneScale == 10 * 10 * 10
EnergyScale == GeneScale * GeneScale
FadeFull == TicksPerSecond

Min(a, b) == IF a < b THEN a ELSE b
Max(a, b) == IF a > b THEN a ELSE b
Abs(a) == IF a < 0 THEN -a ELSE a

\* f64 division of fixed-point numbers, truncated toward zero; x / 0 is taken as 0.
Div(a, b) ==
    IF b = 0 THEN 0
    ELSE IF (a >= 0) = (b > 0) THEN Abs(a) \div Abs(b)
    ELSE -(Abs(a) \div Abs(b))

RECURSIVE IsqrtIn(_, _, _)
IsqrtIn(n, lo, hi) ==
    IF lo >= hi THEN lo
    ELSE LET mid == (lo + hi + 1) \div 2
         IN  IF mid * mid <= n THEN IsqrtIn(n, mid, hi) ELSE IsqrtIn(n, lo, mid - 1)

\* floor(sqrt(n)) for 0 <= n < 2^31
Isqrt(n) == IF n <= 0 THEN 0 ELSE IsqrtIn(n, 0, Min(n, 46340))

DistSq(x1, y1, x2, y2) == (x1 - x2) * (x1 - x2) + (y1 - y2) * (y1 - y2)

\* ((dx*dx + dy*dy).sqrt()) in position units
Distance(x1, y1, x2, y2) == Isqrt(DistSq(x1, y1, x2, y2))

RECURSIVE Xor(_, _)
Xor(a, b) ==
    IF a = 0 THEN b
    ELSE IF b = 0 THEN a
    ELSE (((a % 2) + (b % 2)) % 2) + 2 * Xor(a \div 2, b \div 2)

\* Option<T>: None is <<>>, Some(v) is <<v>>
None == <<>>
Some(v) == <<v>>
IsSome(o) == o /= <<>>

-----------------------------------------------------------------------------
(* Genes (src/src/genes.rs)                                                *)

TraitNames ==
    << "speed", "sense_range", "size", "energy_efficiency", "reproduction_threshold",
       "mutation_rate", "aggression", "color_hue", "is_predator", "hunting_speed",
       "attack_power", "defense", "stealth", "pack_mentality", "territory_size",
       "metabolism", "intelligence", "stamina" >>

Traits == { TraitNames[i] : i \in 1..Len(TraitNames) }

\* The range of each trait that Genes::new samples from (half-open, thousandths).
NewGeneRange ==
    [ speed |-> <<800, 1500>>, sense_range |-> <<30000, 80000>>, size |-> <<900, 1300>>,
      energy_efficiency |-> <<800, 1200>>, reproduction_threshold |-> <<60000, 120000>>,
      mutation_rate |-> <<20, 80>>, aggression |-> <<200, 800>>, color_hue |-> <<0, 360000>>,
      is_predator |-> <<0, 300>>, hunting_speed |-> <<1000, 2000>>,
      attack_power |-> <<500, 1500>>, defense |-> <<500, 1500>>, stealth |-> <<0, 1000>>,
      pack_mentality |-> <<0, 1000>>, territory_size |-> <<50000, 150000>>,
      metabolism |-> <<800, 1400>>, intelligence |-> <<500, 1500>>, stamina |-> <<500, 1500>> ]

\* Genes::new with every trait drawn at `per` thousandths of its range (0 <= per < 1000).
NewGenes(per) ==
    [ t \in Traits |->
        NewGeneRange[t][1] + ((NewGeneRange[t][2] - NewGeneRange[t][1]) * per) \div 1000 ]

\* The guarded arms of the match in mutate_gene, in source order:
\* <<"lt", bound, result>> is `v if v < bound => result`, "gt" likewise.
ClampArms ==
    << <<"lt", 100, 100>>,       <<"gt", 3000, 3000>>,       \* speed
       <<"lt", 5000, 5000>>,     <<"gt", 150000, 150000>>,   \* sense_range
       <<"lt", 300, 300>>,       <<"gt", 2500, 2500>>,       \* size
       <<"lt", 100, 100>>,       <<"gt", 2500, 2500>>,       \* energy_efficiency
       <<"lt", 10000, 10000>>,   <<"gt", 200000, 200000>>,   \* reproduction_threshold
       <<"lt", 1, 1>>,           <<"gt", 300, 300>>,         \* mutation_rate
       <<"lt", 0, 0>>,           <<"gt", 1000, 1000>>,       \* aggression
       <<"lt", 0, 0>>,           <<"gt", 360000, 360000>>,   \* color_hue
       <<"lt", 0, 0>>,           <<"gt", 1000, 1000>>,       \* is_predator
       <<"lt", 500, 500>>,       <<"gt", 3000, 3000>>,       \* hunting_speed
       <<"lt", 100, 100>>,       <<"gt", 3000, 3000>>,       \* attack_power
       <<"lt", 100, 100>>,       <<"gt", 3000, 3000>>,       \* defense
       <<"lt", 0, 0>>,           <<"gt", 1000, 1000>>,       \* stealth
       <<"lt", 0, 0>>,           <<"gt", 1000, 1000>>,       \* pack_mentality
       <<"lt", 10000, 10000>>,   <<"gt", 300000, 300000>>,   \* territory_size
       <<"lt", 100, 100>>,       <<"gt", 3000, 3000>>,       \* metabolism
       <<"lt", 100, 100>>,       <<"gt", 3000, 3000>>,       \* intelligence
       <<"lt", 100, 100>>,       <<"gt", 3000, 3000>> >>     \* stamina

RECURSIVE MatchArms(_, _)
\* The value of the match on `gene`: the first arm whose guard holds, from arm k on;
\* `_ => gene` when none does.
MatchArms(gene, k) ==
    IF k > Len(ClampArms) THEN gene
    ELSE LET arm == ClampArms[k]
         IN  IF (arm[1] = "lt" /\ gene < arm[2]) \/ (arm[1] = "gt" /\ gene > arm[2])
             THEN arm[3]
             ELSE MatchArms(gene, k + 1)

\* The blend of lines 111-112 and the mutation of lines 115-119, before the match.
\* blend: the factor drawn from [0.3, 0.7); roll: the f64 drawn from [0, 1);
\* noise: the sample of Normal(0, 0.05); all in thousandths.  Each product is
\* rounded to the unit on its own, as each f64 operation is.
BlendAndMutate(gene1, gene2, mutation_rate, blend, roll, noise) ==
    LET gene == Div(gene1 * blend, GeneScale) + Div(gene2 * (GeneScale - blend), GeneScale)
    IN  IF roll < mutation_rate THEN gene + noise ELSE gene

mutate_gene(gene1, gene2, mutation_rate, blend, roll, noise) ==
    MatchArms(BlendAndMutate(gene1, gene2, mutation_rate, blend, roll, noise), 1)

\* draw[t] is the <<blend, roll, noise>> drawn for trait t.
inherit_from(self, other, mutation_rate, draw) ==
    [ t \in Traits |->
        mutate_gene(self[t], other[t], mutation_rate, draw[t][1], draw[t][2], draw[t][3]) ]

\* In thousandths.
get_fitness_score(g) ==
    LET speed_score == (g.speed * 2) \div 10
        sense_score == (g.sense_range * 15) \div 10000
        efficiency_score == (g.energy_efficiency * 2) \div 10
        size_score == Div(100 * GeneScale, g.size)
        reproduction_score == Div(5000 * GeneScale, g.reproduction_threshold)
        predator_bonus == IF g.is_predator > 500 THEN 500 ELSE 0
    IN  speed_score + sense_score + efficiency_score + size_score + reproduction_score
        + predator_bonus + g.hunting_speed \div 10 + g.attack_power \div 10
        + g.defense \div 10 + g.intelligence \div 10 + g.stamina \div 10

-----------------------------------------------------------------------------
(* Resource (src/src/resource.rs)                                          *)

\* Resource::new; s = <<initial_energy, max_energy, growth_rate, regeneration_rate>>
\* as drawn (energies in world units, rates in thousandths).
NewResource(x, y, s) ==
    [ x |-> x, y |-> y, energy |-> 0, max_energy |-> s[2] * EnergyScale,
      size |-> 3 * GeneScale, growth_rate |-> s[3], regeneration_rate |-> s[4],
      age |-> 0, target_energy |-> s[1] * EnergyScale, is_spawning |-> TRUE,
      spawn_fade |-> 0, is_depleting |-> FALSE, deplete_fade |-> 0 ]

ResourceUpdate(r) ==
    LET spawnF == IF r.is_spawning THEN r.spawn_fade + 2 ELSE r.spawn_fade
        \* `spawn_fade >= 1.0`: the f64 sum of 30 times 2/60 is 0.9999999999999999,
        \* so the fade-in ends with the 31st addition
        spawned == r.is_spawning /\ spawnF > FadeFull
        r1 == [r EXCEPT !.age = @ + 1,
                        !.spawn_fade = IF spawned THEN FadeFull ELSE spawnF,
                        !.is_spawning = IF spawned THEN FALSE ELSE @]
        deplF == IF r1.is_depleting THEN Min(r1.deplete_fade + 3, FadeFull)
                 ELSE r1.deplete_fade
        r2 == [r1 EXCEPT !.deplete_fade = deplF]
        \* growth_rate * delta_time, in millionths
        step == (r2.growth_rate * 1000) \div TicksPerSecond
        energy_diff == r2.target_energy - r2.energy
        growth_amount == IF energy_diff > 0 THEN step ELSE -step
        e1 == IF Abs(energy_diff) > EnergyScale \div 10
              THEN (IF Abs(energy_diff) < Abs(growth_amount) THEN r2.target_energy
                    ELSE r2.energy + growth_amount)
              ELSE r2.energy
        e2 == IF e1 < r2.max_energy THEN Min(e1 + step \div 2, r2.max_energy) ELSE e1
        r3 == IF ~r2.is_spawning /\ ~r2.is_depleting THEN [r2 EXCEPT !.energy = e2] ELSE r2
        target_size == 3 * GeneScale
                       + Div((r3.energy \div 1000) * 5000, r3.max_energy \div 1000)
        size_diff == target_size - r3.size
        r4 == IF Abs(size_diff) > 100
              THEN [r3 EXCEPT !.size = @ + Div(size_diff * 2, TicksPerSecond)]
              ELSE r3
    IN  IF r4.energy < 10 * EnergyScale /\ ~r4.is_depleting
        THEN [r4 EXCEPT !.energy = @ + (r4.regeneration_rate * 1000) \div TicksPerSecond]
        ELSE r4

\* consume without the min: the whole amount is handed out
ConsumedAll(amount, energy) == amount

\* line 102: amount.min(self.energy)
ConsumedAmount(amount, energy) == Min(amount, energy)

\* Resource::consume: the resource afterwards and the amount returned.
consume(r, amount) ==
    LET consumed == ConsumedAmount(amount, r.energy)
        left == r.energy - consumed
    IN  [ resource |-> IF left <= 0
                       THEN [r EXCEPT !.energy = 0, !.is_depleting = TRUE, !.deplete_fade = 0]
                       ELSE [r EXCEPT !.energy = left],
          consumed |-> consumed ]

is_available(r) ==
    r.energy > 5 * EnergyScale /\ ~r.is_depleting /\ r.spawn_fade > FadeFull \div 2

-----------------------------------------------------------------------------
(* Agent (src/src/agent.rs)                                                *)

\* Agent::new; angle = <<cos, sin>> of the heading drawn, in thousandths.
NewAgent(x, y, genes, generation, angle) ==
    [ x |-> x, y |-> y,
      dx |-> Div(angle[1] * genes.speed, GeneScale),
      dy |-> Div(angle[2] * genes.speed, GeneScale),
      energy |-> 80 * EnergyScale, max_energy |-> 100 * EnergyScale, age |-> 0,
      genes |-> genes, target_x |-> None, target_y |-> None, state |-> "Seeking",
      last_reproduction |-> 0, kills |-> 0, generation |-> generation,
      death_fade |-> 0, death_reason |-> None, is_dying |-> FALSE, spawn_fade |-> 0 ]

can_reproduce(a) ==
    /\ a.energy > 10 * EnergyScale
    /\ a.age > 2 * TicksPerSecond
    /\ a.age - a.last_reproduction > TicksPerSecond

\* `v as u64` of an f64: negative values saturate to 0.
AsU64(v) == Max(v, 0)

id(a) ==
    Xor(Xor(AsU64(Div(a.x * 1000, PosScale)), AsU64(Div(a.y * 1000, PosScale))),
        a.generation)

is_alive(a) == a.energy > 0 /\ a.age < 200 * TicksPerSecond

\* `age > 200.0` for an agent that has been updated `age` times: its age is the f64
\* sum of `age` times 1/60, which is 199.98333333338462 after 11999 additions and
\* 200.0000000000513 after 12000
OverCeiling(age) == age >= 200 * TicksPerSecond

is_predator(a) == a.genes.is_predator > 500

is_prey(a) == ~is_predator(a)

\* A gene that is a distance (thousandths of a world unit), in position units.
GenePos(g) == (g * PosScale) \div GeneScale

NoTarget == [has |-> FALSE, score |-> 0, tx |-> 0, ty |-> 0]

\* `score > best_score`, best_score starting at NEG_INFINITY
Better(best, score) == ~best.has \/ score > best.score

RECURSIVE PreyScan(_, _, _, _)
\* seek_targets, lines 214-237: the best prey among others[k..]
PreyScan(a, others, k, best) ==
    IF k > Len(others) THEN best
    ELSE
      LET o == others[k]
          limit == ((a.genes.sense_range \div 100) * (a.genes.territory_size \div 100) * 6)
                   \div 1000
          dsq == DistSq(a.x, a.y, o.x, o.y)
          distance == Isqrt(dsq)
          energy_score == o.energy \div 100000
          distance_penalty == Div(distance * 50000, a.genes.sense_range * 3)
          score == Div(Div(Div(energy_score * (1000 - distance_penalty), 1000)
                           * (1000 + a.genes.stealth), 1000)
                       * (1000 + a.genes.intelligence), 1000)
      IN  IF id(o) /= id(a) /\ is_prey(o) /\ dsq <= limit * limit /\ Better(best, score)
          THEN PreyScan(a, others, k + 1,
                        [has |-> TRUE, score |-> score, tx |-> o.x, ty |-> o.y])
          ELSE PreyScan(a, others, k + 1, best)

\* seek_targets, lines 240-255: the first predator within sense range (0 if none)
FirstThreat(a, others) ==
    LET sense == GenePos(a.genes.sense_range)
        hits == { k \in 1..Len(others) :
                    /\ id(others[k]) /= id(a)
                    /\ is_predator(others[k])
                    /\ DistSq(a.x, a.y, others[k].x, others[k].y) <= sense * sense }
    IN  IF hits = {} THEN 0 ELSE CHOOSE k \in hits : \A j \in hits : k <= j

RECURSIVE ResourceScan(_, _, _, _)
\* seek_targets, lines 258-269
ResourceScan(a, rs, k, best) ==
    IF k > Len(rs) THEN best
    ELSE
      LET r == rs[k]
          sense == GenePos(a.genes.sense_range)
          dsq == DistSq(r.x, r.y, a.x, a.y)
          score == ((r.energy \div 1000) * PosScale) \div (Isqrt(dsq) + PosScale)
      IN  IF is_available(r) /\ dsq <= sense * sense /\ Better(best, score)
          THEN ResourceScan(a, rs, k + 1,
                            [has |-> TRUE, score |-> score, tx |-> r.x, ty |-> r.y])
          ELSE ResourceScan(a, rs, k + 1, best)

RECURSIVE RivalScan(_, _, _, _)
\* seek_targets, lines 272-306: [flee |-> k] when rival k makes the agent flee,
\* otherwise the best target
RivalScan(a, others, k, best) ==
    IF k > Len(others) THEN [flee |-> 0, best |-> best]
    ELSE
      LET o == others[k]
          half == GenePos(a.genes.sense_range) \div 2
          dsq == DistSq(a.x, a.y, o.x, o.y)
          size_ratio == Div(o.genes.size * 1000, a.genes.size)
          energy_ratio == Div((o.energy \div 1000) * 1000, a.energy \div 1000)
          attack_ratio == Div(a.genes.attack_power * 1000, o.genes.attack_power)
          score == Div(Div((((o.energy \div 1000) * PosScale) \div (Isqrt(dsq) + PosScale))
                           * a.genes.aggression, 1000) * attack_ratio, 1000)
      IN  IF ~(id(o) /= id(a) /\ is_predator(o) /\ dsq <= half * half)
          THEN RivalScan(a, others, k + 1, best)
          ELSE IF size_ratio < 800 /\ energy_ratio > 700 /\ attack_ratio > 1200
                  /\ a.genes.aggression > 600
          THEN RivalScan(a, others, k + 1,
                         IF Better(best, score)
                         THEN [has |-> TRUE, score |-> score, tx |-> o.x, ty |-> o.y]
                         ELSE best)
          ELSE IF size_ratio > 1200 /\ attack_ratio < 800
          THEN [flee |-> k, best |-> best]
          ELSE RivalScan(a, others, k + 1, best)

random_movement(a, angle) ==
    [a EXCEPT !.dx = Div(angle[1] * a.genes.speed, GeneScale),
              !.dy = Div(angle[2] * a.genes.speed, GeneScale)]

\* Fleeing with the target mirrored away from `o`; times = 20 for * 2.0, 15 for * 1.5
FleeFrom(a, o, times) ==
    [a EXCEPT !.state = "Fleeing",
              !.target_x = Some(a.x - Div((o.x - a.x) * times, 10)),
              !.target_y = Some(a.y - Div((o.y - a.y) * times, 10))]

seek_targets(a, rs, others, angle) ==
    LET best1 == IF is_predator(a) THEN PreyScan(a, others, 1, NoTarget) ELSE NoTarget
        threat == IF is_prey(a) THEN FirstThreat(a, others) ELSE 0
        best2 == ResourceScan(a, rs, 1, best1)
        rival == IF is_predator(a) THEN RivalScan(a, others, 1, best2)
                 ELSE [flee |-> 0, best |-> best2]
    IN  IF threat /= 0 THEN FleeFrom(a, others[threat], 20)
        ELSE IF rival.flee /= 0 THEN FleeFrom(a, others[rival.flee], 15)
        ELSE IF rival.best.has
        THEN [a EXCEPT !.target_x = Some(rival.best.tx), !.target_y = Some(rival.best.ty),
                       !.state = "Hunting"]
        ELSE random_movement(a, angle)

\* reproduce() that leaves the state as it is
ReproduceKeepState(a) ==
    [a EXCEPT !.energy = (@ \div 10) * 7, !.last_reproduction = a.age]

\* hunt_target() that leaves an agent without a target as it is
HuntTargetStay(a) == a

hunt_target(a) ==
    IF IsSome(a.target_x) /\ IsSome(a.target_y)
    THEN LET dx == a.target_x[1] - a.x
             dy == a.target_y[1] - a.y
             distance == Isqrt(dx * dx + dy * dy)
             hunting_speed == IF is_predator(a)
                              THEN Div(a.genes.speed * a.genes.hunting_speed, GeneScale) * 2
                              ELSE a.genes.speed * 2
         IN  IF dx * dx + dy * dy < (5 * PosScale) * (5 * PosScale)
             THEN [a EXCEPT !.state = "Feeding"]
             ELSE [a EXCEPT !.dx = Div(dx * hunting_speed, distance),
                            !.dy = Div(dy * hunting_speed, distance)]
    ELSE [a EXCEPT !.state = "Seeking"]

\* The index of the first resource within the interaction radius (0 if none).
FirstInReach(a, rs) ==
    LET hits == { k \in 1..Len(rs) :
                    DistSq(rs[k].x, rs[k].y, a.x, a.y) < (5 * PosScale) * (5 * PosScale) }
    IN  IF hits = {} THEN 0 ELSE CHOOSE k \in hits : \A j \in hits : k <= j

\* the feeding gain without the cap of lines 354-356
FeedGainUncapped(energy, max_energy, energy_efficiency) ==
    energy + 50 * GeneScale * energy_efficiency

\* energy += 50.0 * energy_efficiency, capped at max_energy (lines 353-356)
FeedGain(energy, max_energy, energy_efficiency) ==
    LET e == energy + 50 * GeneScale * energy_efficiency
    IN  IF e > max_energy THEN max_energy ELSE e

\* [agent, consumed]: consumed is Some(index of the resource fed on) or None
feed_on_resource(a, rs) ==
    LET k == IF IsSome(a.target_x) /\ IsSome(a.target_y) THEN FirstInReach(a, rs) ELSE 0
        e == FeedGain(a.energy, a.max_energy, a.genes.energy_efficiency)
    IN  IF k /= 0
        THEN [ agent |-> [a EXCEPT !.energy = e,
                                   !.state = IF e > 15 * EnergyScale
                                                /\ a.age > 2 * TicksPerSecond
                                             THEN "Reproducing" ELSE "Seeking",
                                   !.target_x = None, !.target_y = None],
               consumed |-> Some(k) ]
        ELSE [ agent |-> [a EXCEPT !.state = "Seeking", !.target_x = None,
                                   !.target_y = None],
               consumed |-> None ]

\* attack_power * size * energy * 0.01, in thousandths
AttackOf(a) == Div(Div(a.genes.attack_power * a.genes.size, 1000) * (a.energy \div 100000),
                   1000)

\* (attack / (their defense * size + 1)) * (1 + intelligence * 0.5 + stamina * 0.3)
TotalPower(a, o) ==
    LET defense == Div(o.genes.defense * o.genes.size, 1000)
        effective == Div(AttackOf(a) * 1000, defense + 1000)
    IN  Div(effective * (1000 + a.genes.intelligence \div 2 + (a.genes.stamina * 3) \div 10),
            1000)

fight_agent(a, others) ==
    LET hits == { k \in 1..Len(others) :
                    DistSq(others[k].x, others[k].y, a.x, a.y)
                        < (5 * PosScale) * (5 * PosScale) }
        k == IF IsSome(a.target_x) /\ IsSome(a.target_y) /\ hits /= {}
             THEN CHOOSE i \in hits : \A j \in hits : i <= j ELSE 0
        o == others[k]
        mine == TotalPower(a, o)
        theirs == TotalPower(o, a)
        energy_gain == IF is_predator(a) /\ is_prey(o) THEN (o.energy \div 10) * 12
                       ELSE (o.energy \div 10) * 6
        won == [a EXCEPT !.energy = @ + energy_gain
                             + (IF is_predator(a) THEN 20 * GeneScale * a.genes.attack_power
                                ELSE 0),
                         !.kills = @ + 1]
        hurt == a.energy - (theirs \div 10) * 1000
        lost == IF hurt <= 0
                THEN [a EXCEPT !.energy = hurt, !.is_dying = TRUE,
                               !.death_reason = Some("Combat"), !.death_fade = 0]
                ELSE [a EXCEPT !.energy = hurt]
        after == IF k = 0 THEN a ELSE IF mine > theirs THEN won ELSE lost
    IN  \* lines 453-455 run after the match on every path
        [after EXCEPT !.state = "Seeking", !.target_x = None, !.target_y = None]

flee_from_danger(a) ==
    IF IsSome(a.target_x) /\ IsSome(a.target_y)
    THEN LET dx == a.target_x[1] - a.x
             dy == a.target_y[1] - a.y
             sense == GenePos(a.genes.sense_range)
             distance == Isqrt(dx * dx + dy * dy)
             speed == a.genes.speed * 3
         IN  IF dx * dx + dy * dy > sense * sense
             THEN [a EXCEPT !.state = "Seeking", !.target_x = None, !.target_y = None]
             ELSE [a EXCEPT !.dx = Div(dx * speed, distance),
                            !.dy = Div(dy * speed, distance)]
    ELSE a

reproduce(a) ==
    [a EXCEPT !.energy = (@ \div 10) * 7, !.last_reproduction = a.age, !.state = "Seeking"]

\* (dx, dy) divided by its length, in thousandths
Normalize(dx, dy) ==
    IF dx = 0 /\ dy = 0 THEN <<dx, dy>>
    ELSE IF Abs(dx) < 30000 /\ Abs(dy) < 30000
    THEN LET length == Isqrt(dx * dx + dy * dy)
         IN  <<Div(dx * 1000, length), Div(dy * 1000, length)>>
    ELSE LET length == Isqrt(Div(dx, 10) * Div(dx, 10) + Div(dy, 10) * Div(dy, 10))
         IN  <<Div(dx * 100, length), Div(dy * 100, length)>>

Wrap(v, max) == LET w == IF v < 0 THEN max ELSE v IN IF w > max THEN 0 ELSE w

\* perturb: whether the 1% draw of line 507 hit; pangle: the <<cos, sin>> drawn then
move_agent(a, canvas_width, canvas_height, perturb, pangle) ==
    LET x == Wrap(a.x + Div(a.dx, GeneScale), canvas_width)
        y == Wrap(a.y + Div(a.dy, GeneScale), canvas_height)
        dx == IF perturb THEN a.dx + pangle[1] \div 10 ELSE a.dx
        dy == IF perturb THEN a.dy + pangle[2] \div 10 ELSE a.dy
        n == Normalize(dx, dy)
    IN  [a EXCEPT !.x = x, !.y = y, !.dx = n[1], !.dy = n[2]]

\* total_energy_cost / energy_efficiency of lines 105-109, in millionths per tick
EnergyCost(a, canvas_width, canvas_height) ==
    LET base == 5 * a.genes.size + 2 * a.genes.speed
        cost == Div(base * a.genes.metabolism, 6 * a.genes.energy_efficiency)
        env == Div(a.x * 1000, canvas_width) + Div(a.y * 1000, canvas_height)
    IN  cost + Div(cost * env, 1000000)

\* lines 84-92 and 105-109: age, spawn fade and the energy cost of the tick
Metabolism(self, canvas_width, canvas_height) ==
    LET a1 == [self EXCEPT !.age = @ + 1,
                           !.spawn_fade = IF @ < FadeFull THEN Min(@ + 3, FadeFull) ELSE @]
    IN  [a1 EXCEPT !.energy = @ - EnergyCost(a1, canvas_width, canvas_height)]

\* lines 95-116 alone: the returns of a dying agent and of a starved one
ReturnsEarlyStarvedOnly(self, a2) ==
    self.is_dying \/ a2.energy <= 0

\* lines 95-124: TRUE when update() returns before the behaviour of lines 126-153
ReturnsEarly(self, a2) ==
    self.is_dying \/ a2.energy <= 0 \/ OverCeiling(a2.age)

\* lines 129-139, the match on self.state: [agent, consumed]
StateAction(a, rs, others, angle) ==
    CASE a.state = "Seeking" ->
           [agent |-> seek_targets(a, rs, others, angle), consumed |-> None]
      [] a.state = "Hunting" -> [agent |-> hunt_target(a), consumed |-> None]
      [] a.state = "Feeding" -> feed_on_resource(a, rs)
      [] a.state = "Reproducing" -> [agent |-> reproduce(a), consumed |-> None]
      [] a.state = "Fighting" -> [agent |-> fight_agent(a, others), consumed |-> None]
      [] a.state = "Fleeing" -> [agent |-> flee_from_danger(a), consumed |-> None]

\* lines 141-147: movement, then the eligibility check
MoveAndCheck(a, canvas_width, canvas_height, d) ==
    LET a4 == move_agent(a, canvas_width, canvas_height, d.perturb, d.pangle)
    IN  IF can_reproduce(a4) THEN [a4 EXCEPT !.state = "Reproducing"] ELSE a4

\* lines 141-155, given the result of the state action
Behave(canvas_width, canvas_height, d, act) ==
    [agent |-> MoveAndCheck(act.agent, canvas_width, canvas_height, d),
     consumed |-> act.consumed]

\* lines 94-124: the returns before the behaviour, given a2 of lines 84-109
Dying(self, a2) ==
    IF self.is_dying
    THEN [self EXCEPT !.age = @ + 1,
                      !.spawn_fade = IF @ < FadeFull THEN Min(@ + 3, FadeFull) ELSE @,
                      !.death_fade = @ + 2]
    ELSE [a2 EXCEPT !.is_dying = TRUE,
                    !.death_reason = IF a2.energy <= 0 THEN Some("Starvation")
                                     ELSE Some("OldAge"),
                    !.death_fade = 0]

\* Agent::update, given a2 of lines 84-109
UpdateFrom(self, a2, rs, others, canvas_width, canvas_height, d) ==
    IF ReturnsEarly(self, a2) THEN [agent |-> Dying(self, a2), consumed |-> None]
    ELSE Behave(canvas_width, canvas_height, d, StateAction(a2, rs, others, d.angle))

\* Agent::update; d = [angle, perturb, pangle] are the random draws it makes.
\* [agent, consumed]: the agent afterwards and the Option<usize> returned.
\* update_behavior_state and perform_learning_calculations only compute locals.
AgentUpdate(self, rs, others, canvas_width, canvas_height, d) ==
    UpdateFrom(self, Metabolism(self, canvas_width, canvas_height), rs, others,
               canvas_width, canvas_height, d)

\* Agent::create_offspring; d = [genes: trait -> <<blend, roll, noise>>,
\* offset: <<offset_x, offset_y>>, angle: <<cos, sin>>]
create_offspring(self, other, d) ==
    NewAgent(self.x + d.offset[1], self.y + d.offset[2],
             inherit_from(self.genes, other.genes, self.genes.mutation_rate, d.genes),
             self.generation + 1, d.angle)

-----------------------------------------------------------------------------
(* Configuration and spatial grid (src/src/simulation.rs)                  *)

WorldWidth == 150       \* Simulation.width, in world units
WorldHeight == 150      \* Simulation.height, in world units
max_agents == 20        \* Simulation.max_agents
max_resources == 20     \* Simulation.max_resources

width == WorldWidth * PosScale
height == WorldHeight * PosScale

grid_cell_size == 50 * PosScale
grid_width == (width + grid_cell_size - 1) \div grid_cell_size
grid_height == (height + grid_cell_size - 1) \div grid_cell_size

\* Cells are numbered from 0, as in the source.
Cells == (0..(grid_width - 1)) \X (0..(grid_height - 1))

\* get_grid_position without the min of lines 86-89
GridPositionUnclamped(x, y) ==
    << IF x < 0 THEN 0 ELSE x \div grid_cell_size,
       IF y < 0 THEN 0 ELSE y \div grid_cell_size >>

\* floor() as usize saturates negative values at 0
get_grid_position(x, y) ==
    << Min(IF x < 0 THEN 0 ELSE x \div grid_cell_size, grid_width - 1),
       Min(IF y < 0 THEN 0 ELSE y \div grid_cell_size, grid_height - 1) >>

RECURSIVE IndicesIn(_, _, _)
\* the indices i >= k of the agents whose position falls in cell c, ascending
IndicesIn(as, c, k) ==
    IF k > Len(as) THEN <<>>
    ELSE IF get_grid_position(as[k].x, as[k].y) = c
    THEN <<k>> \o IndicesIn(as, c, k + 1)
    ELSE IndicesIn(as, c, k + 1)

\* Simulation::update_spatial_grid: the grid after clearing and repopulating it
update_spatial_grid(as) == [c \in Cells |-> IndicesIn(as, c, 1)]

\* (radius / grid_cell_size).ceil(), radius in position units
GridRadius(radius) == (radius + grid_cell_size - 1) \div grid_cell_size

RECURSIVE NearbyFrom(_, _, _, _, _)
\* the cells of the (2*gr+1)^2 block around (cx, cy) from the k-th on (dx outer loop,
\* dy inner loop); a cell outside the grid is skipped
NearbyFrom(grid, cx, cy, gr, k) ==
    IF k >= (2 * gr + 1) * (2 * gr + 1) THEN <<>>
    ELSE LET gx == cx + (k \div (2 * gr + 1)) - gr
             gy == cy + (k % (2 * gr + 1)) - gr
         IN  (IF gx >= 0 /\ gx < grid_width /\ gy >= 0 /\ gy < grid_height
              THEN grid[<<gx, gy>>] ELSE <<>>)
             \o NearbyFrom(grid, cx, cy, gr, k + 1)

\* Simulation::get_nearby_agents
get_nearby_agents(grid, x, y, radius) ==
    LET c == get_grid_position(x, y)
    IN  NearbyFrom(grid, c[1], c[2], GridRadius(radius), 0)

\* LegacySimulationEngine::get_nearby_agents (src/src/simulation_core.rs): the
\* 3 x 3 block of cells around the query point, filtered by exact distance
LegacyGetNearbyAgents(grid, as, x, y, radius) ==
    LET c == get_grid_position(x, y)
        block == NearbyFrom(grid, c[1], c[2], 1, 0)
    IN  SelectSeq(block, LAMBDA i :
            i <= Len(as) /\ DistSq(as[i].x, as[i].y, x, y) <= radius * radius)

is_rayon_available == THREAD_POOL_AVAILABLE /\ RAYON_INITIALIZED

-----------------------------------------------------------------------------
(* Simulation::perform_complex_calculations (src/src/simulation.rs)        *)

\* f64::sin of an angle in millionths of a radian, in millionths: the angle is
\* reduced to [-pi/2, pi/2] and the Taylor series is summed to the x^9 term.
Sin(a) ==
    LET r0 == ((a + 3141593) % 6283185) - 3141593
        r == IF r0 > 1570796 THEN 3141593 - r0
             ELSE IF r0 < -1570796 THEN -3141593 - r0 ELSE r0
        x == Div(r, 100)
        x2 == (x * x) \div 10000
        s3 == Div(Div(x * x2, 10000), 6)
        s5 == Div(Div(s3 * x2, 10000), 20)
        s7 == Div(Div(s5 * x2, 10000), 42)
        s9 == Div(Div(s7 * x2, 10000), 72)
    IN  (x - s3 + s5 - s7 + s9) * 100

Cos(a) == Sin(a + 1570796)

\* the product of two numbers in millionths, in millionths
MulMicro(a, b) == Div(a, 1000) * Div(b, 1000)

\* line 387: the force block needs more than this many agents and resources
ForceThreshold == 10

RECURSIVE SumSeq(_, _)
SumSeq(q, k) == IF k > Len(q) THEN 0 ELSE q[k] + SumSeq(q, k + 1)

\* The significant bits a floating-point sum keeps here (an f64 keeps 53).  A sum
\* is rounded after every addition, so its value depends on how the additions
\* are grouped.
SumBits == 16

RECURSIVE UlpOf(_, _)
\* the spacing of the representable numbers at magnitude n, from spacing u on
UlpOf(n, u) == IF n \div u < 2 ^ SumBits THEN u ELSE UlpOf(n, 2 * u)

\* x rounded (toward zero, as the divisions are) to a representable number
Fl(x) == Div(x, UlpOf(Abs(x), 1)) * UlpOf(Abs(x), 1)

RECURSIVE FoldSum(_, _, _, _)
\* Iterator::sum over q[lo..hi]: a left fold from acc
FoldSum(q, lo, hi, acc) ==
    IF lo > hi THEN acc ELSE FoldSum(q, lo + 1, hi, Fl(acc + q[lo]))

RECURSIVE ParSum(_, _, _, _)
\* ParallelIterator::sum over q[lo..hi]: rayon halves the slice `depth` times
\* (how often depends on the number of worker threads and on which halves were
\* stolen), folds each part and adds the partial sums pairwise
ParSum(q, lo, hi, depth) ==
    IF depth = 0 \/ hi - lo < 1 THEN FoldSum(q, lo, hi, 0)
    ELSE Fl(ParSum(q, lo, lo + (hi - lo + 1) \div 2 - 1, depth - 1)
            + ParSum(q, lo + (hi - lo + 1) \div 2, hi, depth - 1))

RECURSIVE ForceFrom(_, _, _, _, _)
\* lines 405-442: <<total_fx, total_fy>> of agent i over nearby[k..], in thousandths
ForceFrom(as, i, nearby, k, acc) ==
    IF k > Len(nearby) THEN acc
    ELSE
      LET j == nearby[k]
          me == as[i]
          o == as[j]
          dsq == DistSq(me.x, me.y, o.x, o.y)
          distance == Isqrt(dsq)
          force == Div(36 * EnergyScale, (dsq + PosScale * PosScale) \div 100)
          energy_factor == (me.energy + o.energy) \div 200000
          speed_factor == (me.genes.speed + o.genes.speed) \div 2
          combined_force == Div(Div(Div(force, 1000) * energy_factor, 1000) * speed_factor,
                                1000)
          fx == Div(combined_force * (o.x - me.x), distance)
          fy == Div(combined_force * (o.y - me.y), distance)
          repulsion == IF dsq < (10 * PosScale) * (10 * PosScale)
                       THEN Div(10 * PosScale, distance) ELSE 0
          attraction == IF dsq > (20 * PosScale) * (20 * PosScale)
                           /\ dsq < (80 * PosScale) * (80 * PosScale)
                        THEN Div(PosScale \div 2, distance) ELSE 0
      IN  IF i /= j /\ j <= Len(as)
             /\ dsq < (100 * PosScale) * (100 * PosScale) /\ dsq > 0
          THEN ForceFrom(as, i, nearby, k + 1,
                         << acc[1] + Div(fx, 1000) + repulsion - attraction,
                            acc[2] + Div(fy, 1000) + repulsion - attraction >>)
          ELSE ForceFrom(as, i, nearby, k + 1, acc)

\* lines 386-448: the agents after the neighbour forces; the grid is the one of
\* the rebuild at the start of the tick
ApplyForces(as, rs, grid) ==
    IF Len(as) > ForceThreshold /\ Len(rs) > ForceThreshold
    THEN [ i \in 1..Len(as) |->
             LET f == ForceFrom(as, i,
                                get_nearby_agents(grid, as[i].x, as[i].y, 100 * PosScale),
                                1, <<0, 0>>)
             IN  [as[i] EXCEPT !.dx = @ + f[1], !.dy = @ + f[2]] ]
    ELSE as

\* sin(sqrt(x*x + y*y) / 1000), in millionths
SpatialFactor(r) == Sin((Isqrt(r.x * r.x + r.y * r.y) * 50) \div 3)

\* lines 457-461: total_energy / num_resources, the sum halved `depth` times.
\* The energies are summed in thousandths, which keeps the total within 31 bits.
AverageEnergy(rs, depth) ==
    Div(ParSum([k \in 1..Len(rs) |-> rs[k].energy \div 1000], 1, Len(rs), depth), Len(rs))
    * 1000

\* lines 451-500: redistribution of the resources' energy
Redistribute(rs, depth) ==
    IF Len(rs) = 0 THEN rs
    ELSE
      LET n == Len(rs)
          average_energy == AverageEnergy(rs, depth)
          dev(k) == Div(rs[k].energy - average_energy, 10000)
          total_variance ==
              ParSum([k \in 1..n |-> (dev(k) * dev(k)) \div 100], 1, n, depth) \div n
          spatial_balance ==
              Div(ParSum([k \in 1..n |-> SpatialFactor(rs[k])], 1, n, depth), n)
      IN  IF total_variance > 500 \/ Abs(spatial_balance) > 100000
          THEN [ k \in 1..n |->
                   [rs[k] EXCEPT !.energy = @ + Div(rs[k].energy - average_energy, 100)
                                              + Div(SpatialFactor(rs[k]), 10)] ]
          ELSE rs

\* lines 505-522: combined_noise of the agent at 0-based index i, in millionths
EnvironmentalFactor(i, t) ==
    LET x == (i * 100) % (WorldWidth * 1000)
        y == (i * 100) % (WorldHeight * 1000)
        time_factor == (t * 50) \div 3
        noise1 == MulMicro(Sin(x * 10 + time_factor), Cos(y * 10 + time_factor))
        noise2 == MulMicro(Cos(x * 5 + time_factor \div 2), Sin(y * 5 + time_factor \div 2))
        noise3 == MulMicro(Sin(x * 20 + time_factor * 2), Sin(y * 20 + time_factor * 2))
    IN  Div(noise1 * 5, 10) + Div(noise2 * 3, 10) + Div(noise3 * 2, 10)

\* lines 503-538: the environmental effect on energy and velocity
ApplyEnvironment(as, t) ==
    [ i \in 1..Len(as) |->
        LET factor == EnvironmentalFactor(i - 1, t)
        IN  [as[i] EXCEPT !.energy = @ + Div(factor, 10000),
                          !.dx = @ + Div(factor, 100 * EnergyScale),
                          !.dy = @ + Div(factor, 100 * EnergyScale)] ]

\* lines 541-582: the population-wide bonus; `shift` is added to what
\* agent.genes.get_fitness_score() returns at line 546 (0 in the program)
ApplyFitness(as, depth, shift) ==
    LET n == Len(as)
        total_fitness ==
            ParSum([i \in 1..n |-> get_fitness_score(as[i].genes) + shift], 1, n, depth)
        fitness_factor == Div(total_fitness, n * 10)
    IN  IF n > 0 /\ total_fitness > 0
        THEN [ i \in 1..n |-> [as[i] EXCEPT !.energy = @ + fitness_factor] ]
        ELSE as

\* perform_complex_calculations, with `shift` added to every fitness score
CalculationsWith(as, rs, grid, t, depth, shift) ==
    [ agents |-> ApplyFitness(ApplyEnvironment(ApplyForces(as, rs, grid), t), depth, shift),
      resources |-> Redistribute(rs, depth),
      queried |-> Len(as) > ForceThreshold /\ Len(rs) > ForceThreshold ]

\* [agents, resources, queried]: queried tells whether the spatial index was queried
perform_complex_calculations(as, rs, grid, t, depth) ==
    CalculationsWith(as, rs, grid, t, depth, 0)

-----------------------------------------------------------------------------
(* Random draws.  Every call of the random generator is an input of the    *)
(* model; an operation takes the draws of one numbered sample.             *)

DrawCount == 3

Angles == << <<1000, 0>>, <<0, 1000>>, <<-1000, 0>>, <<0, -1000>> >>
Blends == <<500, 300, 699>>
Rolls == <<999, 0>>
Noises == <<50, -150, 150, -50>>
Offsets == << <<300, 300>>, <<-599, 0>>, <<0, 599>> >>
Points == << <<1500, 1500>>, <<1560, 1500>>, <<4500, 3500>> >>
\* <<initial_energy, max_energy, growth_rate, regeneration_rate>> of Resource::new
ResourceSamples == << <<50, 100, 1000, 300>>, <<79, 50, 1999, 499>>, <<20, 149, 500, 100>> >>

Pick(q, k) == q[(k % Len(q)) + 1]

\* the draws of Agent::update for the agent at index i
AgentDraw(k, i) ==
    [angle |-> Pick(Angles, k + i), perturb |-> (k + i) % 2 = 0, pangle |-> Pick(Angles, k)]

\* the draws of Agent::create_offspring for the parent at index i
OffspringDraw(k, i) ==
    [ genes |-> [t \in Traits |-> <<Pick(Blends, k), Pick(Rolls, k), Pick(Noises, k + i)>>],
      offset |-> Pick(Offsets, k + i), angle |-> Pick(Angles, k + i) ]

-----------------------------------------------------------------------------
(* Simulation::update (src/src/simulation.rs)                              *)

MarkDepleting(rs, consumed) ==
    IF IsSome(consumed) /\ consumed[1] <= Len(rs)
    THEN [rs EXCEPT ![consumed[1]] = [@ EXCEPT !.is_depleting = TRUE, !.deplete_fade = 0]]
    ELSE rs

\* what a feeding agent did, for the record: the resource it fed on, whether that
\* resource was available when it fed, the agent's energy right afterwards and what
\* the update added to it
FeedEvent(i, rs, u) ==
    [ agent |-> i, resource |-> u.consumed[1],
      available |-> is_available(rs[u.consumed[1]]),
      energy |-> u.agent.energy,
      max_energy |-> u.agent.max_energy,
      gained |-> u.agent.energy - agents[i].energy ]

RECURSIVE AgentsSequential(_, _, _, _, _)
\* lines 200-206: what the loop does with the result u of agents[i].update(..)
SequentialStep(as, rs, i, k, feeds, u) ==
    AgentsSequential([as EXCEPT ![i] = u.agent], MarkDepleting(rs, u.consumed), i + 1, k,
                     IF IsSome(u.consumed) THEN Append(feeds, FeedEvent(i, rs, u))
                     ELSE feeds)

\* lines 198-207: agents i.. are updated in order, each against the resources as
\* marked by the agents before it
AgentsSequential(as, rs, i, k, feeds) ==
    IF i > Len(as) THEN [agents |-> as, resources |-> rs, feeds |-> feeds]
    ELSE SequentialStep(as, rs, i, k, feeds,
                        AgentUpdate(as[i], rs, <<>>, width, height, AgentDraw(k, i)))

RECURSIVE MarkAll(_, _, _)
\* lines 189-196: the commit phase of the parallel path
MarkAll(rs, updates, i) ==
    IF i > Len(updates) THEN rs
    ELSE MarkAll(MarkDepleting(rs, updates[i].consumed), updates, i + 1)

\* the agents that fed, in collection order
Fed(updates) ==
    SelectSeq([i \in 1..Len(updates) |-> i], LAMBDA i : IsSome(updates[i].consumed))

ParallelFeeds(rs, updates, fed) ==
    [j \in 1..Len(fed) |-> FeedEvent(fed[j], rs, updates[fed[j]])]

ParallelCommit(rs, updates) ==
    [ agents |-> [i \in 1..Len(updates) |-> updates[i].agent],
      resources |-> MarkAll(rs, updates, 1),
      feeds |-> ParallelFeeds(rs, updates, Fed(updates)) ]

\* a parallel phase whose workers mark the shared resources as they go
AgentsParallelInterleaved(as, rs, k) == AgentsSequential(as, rs, 1, k, <<>>)

\* lines 176-196: every agent is updated against a clone of the resources
AgentsParallel(as, rs, k) ==
    ParallelCommit(rs, [i \in 1..Len(as) |->
                          AgentUpdate(as[i], rs, <<>>, width, height, AgentDraw(k, i))])

\* the potential mates of the agent at index i, in collection order
PotentialMates(as, i) ==
    SelectSeq([j \in 1..Len(as) |-> j], LAMBDA j :
        /\ id(as[j]) /= id(as[i])
        /\ DistSq(as[i].x, as[i].y, as[j].x, as[j].y) < (20 * PosScale) * (20 * PosScale)
        /\ as[j].energy > 50 * EnergyScale
        /\ can_reproduce(as[j]))

\* potential_mates.choose(rng): the k-th sample picks the first or the last
ChooseMate(mates, k) == IF k % 2 = 1 THEN mates[1] ELSE mates[Len(mates)]

\* rng.gen::<f64>() < 0.5 for the parent at index i: in the first sample every
\* parent draws below 0.5, in the others every second one
CoinFlip(k, i) == k = 1 \/ (k + i) % 2 = 0

\* line 283: the cap check of the sequential pass
CapAllowsSequential(count, created) == count + created < max_agents

\* line 244: the cap check of the parallel pass
CapAllowsParallel(count, created) == count < max_agents

RECURSIVE ReproduceSequential(_, _, _, _)
\* lines 267-290: the agent at index i, given its potential mates
SequentialParent(as, i, k, new_agents, mates) ==
    IF can_reproduce(as[i]) /\ mates /= <<>>
       /\ CapAllowsSequential(Len(as), Len(new_agents)) /\ CoinFlip(k, i)
    THEN ReproduceSequential(as, i + 1, k,
             Append(new_agents,
                    create_offspring(as[i], as[ChooseMate(mates, k)], OffspringDraw(k, i))))
    ELSE ReproduceSequential(as, i + 1, k, new_agents)

\* lines 265-291: new_agents after agents i.. have been considered
ReproduceSequential(as, i, k, new_agents) ==
    IF i > Len(as) THEN new_agents
    ELSE SequentialParent(as, i, k, new_agents, PotentialMates(as, i))

\* lines 228-259: the offspring of the closure for the agent at index i, or None
ParallelParent(as, i, k, mates) ==
    IF can_reproduce(as[i]) /\ mates /= <<>> /\ CapAllowsParallel(Len(as), 0)
       /\ CoinFlip(k, i)
    THEN Some(create_offspring(as[i], as[ChooseMate(mates, k)], OffspringDraw(k, i)))
    ELSE None

RECURSIVE Flatten(_, _)
\* filter_map(..).collect(): the Some values in order
Flatten(opts, i) ==
    IF i > Len(opts) THEN <<>>
    ELSE opts[i] \o Flatten(opts, i + 1)

\* lines 225-261: filter_map over the agents, each closure seeing only self.agents
ReproduceParallel(as, k) ==
    Flatten([i \in 1..Len(as) |-> ParallelParent(as, i, k, PotentialMates(as, i))], 1)

\* a gate with the first of the two checks only
ReproductionGateHighWater(count) == count >= (max_agents * 8) \div 10

\* lines 211-220: TRUE when update() returns before the reproduction pass
ReproductionGateFails(count) ==
    \/ count >= (max_agents * 8) \div 10
    \/ count * 10 > 6 * max_agents

\* a cleanup that retains every agent
CleanupAgentsKeepAll(as) == as

\* line 296
CleanupAgents(as) == SelectSeq(as, is_alive)

\* lines 299-300
CleanupResources(rs) ==
    SelectSeq(rs, LAMBDA r : ~r.is_depleting \/ r.deplete_fade < FadeFull)

\* the number of resources of rs whose deplete fade has not completed
Unfaded(rs) ==
    Cardinality({ j \in 1..Len(rs) : ~(rs[j].is_depleting /\ rs[j].deplete_fade >= FadeFull) })

\* an agent that is dead at the start of a tick: energy <= 0 or age over the ceiling
Doomed(a) == a.energy <= 0 \/ OverCeiling(a.age)

NoHist(op) ==
    [ op |-> op, parallel |-> FALSE, gate |-> FALSE, before |-> 0, offspring |-> 0,
      after_pass |-> 0, removed |-> 0, doomed |-> 0, doomed_kept |-> 0,
      queried |-> FALSE, feeds |-> <<>>, dispatched |-> {}, unfaded_removed |-> 0,
      marked |-> {}, starved |-> {}, reproduced |-> {}, births |-> <<>>, parents |-> {} ]

\* the indices of the agents that are dead at the start of the tick
DoomedAtStart == { i \in 1..Len(agents) : Doomed(agents[i]) }

\* the steps of update() that go through rayon's par_iter: the resource and agent
\* phases (lines 156-159, 175-186) and the reproduction pass (lines 223-261) when
\* is_rayon_available(), and perform_complex_calculations (lines 401-402, 452-454,
\* 505-506) whenever it runs on a collection that is not empty
Dispatched(parallel, gate, num_agents, num_resources) ==
    (IF parallel THEN {"resources", "agents"} ELSE {})
    \cup (IF parallel /\ gate THEN {"reproduction"} ELSE {})
    \cup (IF gate /\ (num_agents > 0 \/ num_resources > 0) THEN {"calculations"} ELSE {})

\* the indices of the agents that the agent phase marked dead (lines 112-124), as is
MarkedDead(as) == { i \in 1..Len(as) : ~agents[i].is_dying /\ as[i].is_dying }

\* the indices of the agents whose update ran reproduce(): the cooldown starts at
\* their age and 70% of their energy is left
RanReproduce(as) ==
    { i \in 1..Len(as) :
        /\ ~as[i].is_dying /\ as[i].last_reproduction = as[i].age
        /\ as[i].energy * 10 <= agents[i].energy * 7 }

\* the record of a tick up to the reproduction gate
TickHist(ph) ==
    [ NoHist("update") EXCEPT !.parallel = is_rayon_available, !.before = Len(ph.agents),
                              !.feeds = ph.feeds, !.doomed = Cardinality(DoomedAtStart),
                              !.marked = MarkedDead(ph.agents),
                              !.starved = { i \in MarkedDead(ph.agents) :
                                              ph.agents[i].energy <= 0 },
                              !.reproduced = RanReproduce(ph.agents),
                              !.dispatched = Dispatched(is_rayon_available, FALSE, 0, 0) ]

\* lines 295-300: the state after the cleanup of agents and resources
AfterCleanup(grid, timer, ph, new_agents, cleaned, rs) ==
    [ agents |-> cleaned, resources |-> rs, timer |-> timer, grid |-> grid,
      hist |-> [ TickHist(ph) EXCEPT
                   !.gate = TRUE, !.offspring = Len(new_agents),
                   !.after_pass = Len(ph.agents) + Len(new_agents),
                   !.removed = Len(ph.agents) + Len(new_agents) - Len(cleaned),
                   !.unfaded_removed = Unfaded(ph.resources) - Unfaded(rs),
                   !.doomed_kept =
                       Cardinality({ i \in DoomedAtStart :
                                       \E j \in 1..Len(cleaned) : cleaned[j] = ph.agents[i] }) ] ]

\* lines 263 / 292-300: the offspring join the collection, then cleanup
AfterReproduction(grid, timer, ph, new_agents) ==
    AfterCleanup(grid, timer, ph, new_agents, CleanupAgents(ph.agents \o new_agents),
                 CleanupResources(ph.resources))

\* who initiated the offspring of a pass and with whom: `since` is the parent's age
\* less its last_reproduction when the pass looked at it
Birth(as, i, k, mates) ==
    [ parent |-> i, mate |-> ChooseMate(mates, k),
      since |-> as[i].age - as[i].last_reproduction ]

RECURSIVE SequentialBirths(_, _, _, _)
\* lines 267-290, for the record: the birth the agent at index i initiates, if any
SequentialBirth(as, i, k, births, mates) ==
    IF can_reproduce(as[i]) /\ mates /= <<>>
       /\ CapAllowsSequential(Len(as), Len(births)) /\ CoinFlip(k, i)
    THEN SequentialBirths(as, i + 1, k, Append(births, Birth(as, i, k, mates)))
    ELSE SequentialBirths(as, i + 1, k, births)

\* lines 265-291, for the record: the births of the sequential pass from agent i on
SequentialBirths(as, i, k, births) ==
    IF i > Len(as) THEN births
    ELSE SequentialBirth(as, i, k, births, PotentialMates(as, i))

\* lines 225-261, for the record: the births of the parallel pass
ParallelBirths(as, k) ==
    LET initiates(i) == /\ can_reproduce(as[i]) /\ PotentialMates(as, i) /= <<>>
                        /\ CapAllowsParallel(Len(as), 0) /\ CoinFlip(k, i)
        parents == SelectSeq([i \in 1..Len(as) |-> i], initiates)
    IN  [j \in 1..Len(parents) |-> Birth(as, parents[j], k, PotentialMates(as, parents[j]))]

\* the index that the agent at index i of `as` has after the retain of line 296
IndexAfterCleanup(as, i) == i - Cardinality({ j \in 1..(i - 1) : ~is_alive(as[j]) })

\* the state t after the pass and the cleanup, with the births on record; `parents`
\* are the initiators that are still in the collection, by their index in it
WithBirths(t, as, births) ==
    [ t EXCEPT !.hist = [ @ EXCEPT
        !.births = births,
        !.parents = { IndexAfterCleanup(as, births[j].parent) :
                        j \in { n \in 1..Len(births) : is_alive(as[births[n].parent]) } } ] ]

\* lines 223-300: the reproduction pass and the cleanup
AfterGate(k, grid, timer, ph) ==
    WithBirths(AfterReproduction(grid, timer, ph,
                                 IF is_rayon_available THEN ReproduceParallel(ph.agents, k)
                                 ELSE ReproduceSequential(ph.agents, 1, k, <<>>)),
               ph.agents,
               IF is_rayon_available THEN ParallelBirths(ph.agents, k)
               ELSE SequentialBirths(ph.agents, 1, k, <<>>))

\* lines 210-293: the gate, with its early return, and the reproduction pass
AfterAgents(k, grid, timer, ph) ==
    IF ReproductionGateFails(Len(ph.agents))
    THEN [ agents |-> ph.agents, resources |-> ph.resources, timer |-> timer,
           grid |-> grid, hist |-> TickHist(ph) ]
    ELSE AfterGate(k, grid, timer, ph)

\* lines 174-208: the agent phase
AfterResources(k, grid, rp) ==
    AfterAgents(k, grid, rp.timer,
                IF is_rayon_available THEN AgentsParallel(agents, rp.resources, k)
                ELSE AgentsSequential(agents, rp.resources, 1, k, <<>>))

\* lines 166-172: resource spawning, given the updated resources and the timer
SpawnResource(k, rs, timer) ==
    IF timer > TicksPerSecond \div 2 /\ Len(rs) < max_resources
    THEN [ resources |-> Append(rs, NewResource(Pick(Points, k)[1], Pick(Points, k)[2],
                                                Pick(ResourceSamples, k))),
           timer |-> 0 ]
    ELSE [ resources |-> rs, timer |-> timer ]

\* lines 148-300 of Simulation::update with the draws of sample k: the state
\* [agents, resources, timer, grid, hist] at the return of line 214 or 219, or
\* in front of line 303
BeforeCalculations(k) ==
    AfterResources(k, update_spatial_grid(agents),
                   SpawnResource(k, [j \in 1..Len(resources) |-> ResourceUpdate(resources[j])],
                                 resource_spawn_timer + 1))

\* line 303 and the end of update(): the state handed back, given the result of
\* the calculations on the state b in front of them
AfterCalculations(b, calc) ==
    [ b EXCEPT !.agents = calc.agents, !.resources = calc.resources,
               !.hist = [ @ EXCEPT !.queried = calc.queried,
                                   !.dispatched =
                                       Dispatched(is_rayon_available, TRUE, Len(b.agents),
                                                  Len(calc.resources)) ] ]

\* update() from the state b of BeforeCalculations on, the parallel sums halved
\* `depth` times and `shift` added to every fitness score
AfterUpdate(b, depth, shift) ==
    IF b.hist.gate
    THEN AfterCalculations(b, CalculationsWith(b.agents, b.resources, b.grid, time + 1,
                                               depth, shift))
    ELSE b

\* The state after Simulation::update with the draws of sample k and the parallel
\* sums halved `depth` times
Tick(k, depth) == AfterUpdate(BeforeCalculations(k), depth, 0)

-----------------------------------------------------------------------------
(* States of a running simulation.  `agents` and `resources` are public    *)
(* fields; a snapshot is a population some ticks into a run, laid out so   *)
(* that the agents are within mating distance of each other and the first  *)
(* resource is within feeding reach of the first agents.                   *)

MaxSteps == 2

\* the time of a snapshot, in ticks
SnapshotTime == 201 * TicksPerSecond

\* the largest population that passes the reproduction gate of lines 211-220
CrowdPop == (max_agents * 6) \div 10

\* spawn_initial_population: (max as f64 * 0.1) as usize
InitialCount(max) == max \div 10

Populations == { InitialCount(max_agents) + 1, CrowdPop, CrowdPop + 1 }

GenePers == <<500, 0, 999, 250>>

AgentX(i) == 1440 + 60 * i
AgentY(i) == 1500

ResourceX(k) == IF k = 1 THEN 1500 ELSE 3000 + 100 * k
ResourceY(k) == IF k = 1 THEN 1560 ELSE 4000

\* an agent `age` ticks into its life: fully faded in, heading normalised by move_agent
Aged(a, age, energy, state) ==
    [a EXCEPT !.age = age, !.energy = energy, !.state = state,
              !.spawn_fade = Min(3 * age, FadeFull),
              !.dx = 1000, !.dy = 0, !.last_reproduction = 0]

Targeting(a, k) ==
    [a EXCEPT !.target_x = Some(ResourceX(k)), !.target_y = Some(ResourceY(k))]

ProfileNames ==
    { "fresh", "young", "ripening", "reproducing", "starving", "zero", "old", "overdue",
      "feeding", "feedingRipe", "hunting" }

\* the agent at index i with the history named by profile p
SnapshotAgent(i, p) ==
    LET a == NewAgent(AgentX(i), AgentY(i), NewGenes(Pick(GenePers, i)), 0,
                      Pick(Angles, i))
        ceiling == 200 * TicksPerSecond
    IN  CASE p = "fresh" -> a
          [] p = "young" -> Aged(a, 60, 79930000, "Seeking")
          [] p = "ripening" -> Aged(a, 120, 79860000, "Seeking")
          [] p = "reproducing" -> Aged(a, 121, 79850000, "Reproducing")
          [] p = "starving" -> Aged(a, 90, 600, "Seeking")
          [] p = "zero" -> Aged(a, 90, 0, "Seeking")
          [] p = "old" ->
               [Aged(a, ceiling - 1, 50 * EnergyScale, "Seeking")
                  EXCEPT !.last_reproduction = ceiling - 10]
          [] p = "overdue" ->
               [Aged(a, ceiling + 1, 50 * EnergyScale, "Seeking")
                  EXCEPT !.last_reproduction = ceiling - 10, !.is_dying = TRUE,
                         !.death_reason = Some("OldAge")]
          [] p = "feeding" -> Targeting(Aged(a, 60, 79930000, "Feeding"), 1)
          [] p = "feedingRipe" ->
               [Targeting(Aged(a, 150, 55 * EnergyScale, "Feeding"), 1)
                  EXCEPT !.last_reproduction = 122]
          [] p = "hunting" -> Targeting(Aged(a, 60, 79930000, "Hunting"), 2)

ResourceKinds == { "available", "depleting", "spawning", "faded" }

\* the resource at index k in the condition named by kind
SnapshotResource(k, kind) ==
    LET r == [ NewResource(ResourceX(k), ResourceY(k), Pick(ResourceSamples, k))
                 EXCEPT !.age = 120, !.energy = 40 * EnergyScale, !.is_spawning = FALSE,
                        !.spawn_fade = FadeFull, !.size = 5 * GeneScale ]
    IN  CASE kind = "available" -> r
          [] kind = "depleting" -> [r EXCEPT !.is_depleting = TRUE, !.deplete_fade = 30]
          [] kind = "faded" -> [r EXCEPT !.is_depleting = TRUE, !.deplete_fade = 57]
          [] kind = "spawning" ->
               [r EXCEPT !.age = 5, !.energy = 0, !.is_spawning = TRUE,
                         !.spawn_fade = 10, !.size = 3 * GeneScale]

\* <<profile of the first agent, profile of the others, kind of the first resource>>
Scenarios ==
    ({"feeding", "feedingRipe"} \X {"young"} \X ResourceKinds)
    \cup ({"starving", "zero", "old", "overdue"} \X {"ripening"} \X {"available", "faded"})
    \cup ({"fresh", "reproducing", "hunting", "ripening"} \X {"ripening", "young"}
            \X {"available"})

SnapshotAgents(n, s) == [i \in 1..n |-> SnapshotAgent(i, IF i = 1 THEN s[1] ELSE s[2])]

SnapshotResources(n, s) ==
    [ k \in 1..(IF n > ForceThreshold THEN ForceThreshold + 1 ELSE InitialCount(max_resources))
        |-> SnapshotResource(k, IF k = 1 THEN s[3] ELSE "available") ]

\* spawn_initial_population with the draws of sample k
InitialAgents(k) ==
    [ i \in 1..InitialCount(max_agents) |->
        NewAgent(Pick(Points, k + i)[1], Pick(Points, k + i)[2],
                 NewGenes(Pick(GenePers, k + i)), 0, Pick(Angles, k + i)) ]

InitialResources(k) ==
    [ i \in 1..InitialCount(max_resources) |->
        NewResource(Pick(Points, k + i + 1)[1], Pick(Points, k + i + 1)[2],
                    Pick(ResourceSamples, k + i)) ]

EmptyGrid == [c \in Cells |-> <<>>]

NoProbe == [fn |-> "none"]

-----------------------------------------------------------------------------
(* The simulation as a state machine                                       *)

\* Simulation::new, or a snapshot of a run
Constructed ==
    /\ agents = InitialAgents(1)
    /\ resources = InitialResources(1)
    /\ time = 0
    /\ resource_spawn_timer = 0
    /\ spatial_grid = EmptyGrid

Snapshot ==
    \E n \in Populations, s \in Scenarios :
        /\ agents = SnapshotAgents(n, s)
        /\ resources = SnapshotResources(n, s)
        /\ time = SnapshotTime
        /\ resource_spawn_timer = TicksPerSecond \div 2
        /\ spatial_grid = update_spatial_grid(agents)

\* a snapshot late in a run: the first agent is one or two ticks short of the age
\* ceiling, with energy left and its last reproduction long ago; the second can
\* reproduce from the next tick on and the third from the tick after it
Elders ==
    \E left \in 1..2 :
        /\ agents =
             [ SnapshotAgents(3, <<"ripening", "ripening", "available">>)
                 EXCEPT ![1] = Aged(@, 200 * TicksPerSecond - left, 55 * EnergyScale,
                                    "Seeking"),
                        ![3] = Aged(@, 2 * TicksPerSecond - 1, 79870000, "Seeking") ]
        /\ resources = SnapshotResources(3, <<"ripening", "ripening", "available">>)
        /\ time = 200 * TicksPerSecond - left
        /\ resource_spawn_timer = TicksPerSecond \div 2
        /\ spatial_grid = update_spatial_grid(agents)

\* a snapshot of three agents that have all reached the first resource and are
\* Feeding, within 5 units of it
Feeders ==
    /\ agents = SnapshotAgents(3, <<"feeding", "feeding", "available">>)
    /\ resources = SnapshotResources(3, <<"feeding", "feeding", "available">>)
    /\ time = SnapshotTime
    /\ resource_spawn_timer = TicksPerSecond \div 2
    /\ spatial_grid = update_spatial_grid(agents)

Init ==
    /\ Constructed \/ Snapshot \/ Elders \/ Feeders
    /\ THREAD_POOL_AVAILABLE = FALSE
    /\ RAYON_INITIALIZED = FALSE
    /\ hist = NoHist("new")
    /\ steps = 0
    /\ probe = NoProbe

\* the state of the simulation becomes that of the finished tick t
Commit(t) ==
    /\ agents' = t.agents
    /\ resources' = t.resources
    /\ resource_spawn_timer' = t.timer
    /\ spatial_grid' = t.grid
    /\ hist' = t.hist

\* how often rayon may halve a slice it sums
MaxSplits == 2

\* Simulation::update
Update ==
    /\ steps < MaxSteps
    /\ \E k \in 1..DrawCount, depth \in 1..MaxSplits : Commit(Tick(k, depth))
    /\ time' = time + 1
    /\ steps' = steps + 1
    /\ UNCHANGED <<THREAD_POOL_AVAILABLE, RAYON_INITIALIZED, probe>>

\* a cap check that lets every call through
UnderCapAlways(count, cap) == TRUE

\* `self.agents.len() < self.max_agents` and its like: the check in front of every push
UnderCap(count, cap) == count < cap

\* Simulation::add_agent
AddAgent ==
    /\ steps < MaxSteps
    /\ LET k == steps + 1
           p == Pick(Points, k)
       IN  agents' = IF UnderCap(Len(agents), max_agents)
                     THEN Append(agents, NewAgent(p[1], p[2], NewGenes(Pick(GenePers, k)), 0,
                                                  Pick(Angles, k)))
                     ELSE agents
    /\ hist' = [NoHist("add_agent") EXCEPT !.before = Len(agents)]
    /\ steps' = steps + 1
    /\ UNCHANGED <<resources, time, resource_spawn_timer, spatial_grid,
                   THREAD_POOL_AVAILABLE, RAYON_INITIALIZED, probe>>

\* Simulation::add_resource
AddResource ==
    /\ steps < MaxSteps
    /\ LET k == steps + 1
           p == Pick(Points, k)
       IN  resources' = IF UnderCap(Len(resources), max_resources)
                        THEN Append(resources, NewResource(p[1], p[2],
                                                           Pick(ResourceSamples, k)))
                        ELSE resources
    /\ hist' = [NoHist("add_resource") EXCEPT !.before = Len(resources)]
    /\ steps' = steps + 1
    /\ UNCHANGED <<agents, time, resource_spawn_timer, spatial_grid,
                   THREAD_POOL_AVAILABLE, RAYON_INITIALIZED, probe>>

\* Simulation::reset
Reset ==
    /\ steps < MaxSteps
    /\ agents' = InitialAgents(steps + 1)
    /\ resources' = InitialResources(steps + 1)
    /\ time' = 0
    /\ resource_spawn_timer' = 0
    /\ hist' = [NoHist("reset") EXCEPT !.before = Len(agents)]
    /\ steps' = steps + 1
    /\ UNCHANGED <<spatial_grid, THREAD_POOL_AVAILABLE, RAYON_INITIALIZED, probe>>

\* Simulation::set_rayon_initialized
SetRayonInitialized ==
    /\ steps < MaxSteps
    /\ \E initialized \in BOOLEAN : RAYON_INITIALIZED' = initialized
    /\ hist' = NoHist("set_rayon_initialized")
    /\ steps' = steps + 1
    /\ UNCHANGED <<agents, resources, time, resource_spawn_timer, spatial_grid,
                   THREAD_POOL_AVAILABLE, probe>>

Next == Update \/ AddAgent \/ AddResource \/ Reset \/ SetRayonInitialized

Spec == Init /\ [][Next]_vars

\* The same machine in a build whose worker pool is available, so that update()
\* takes the parallel branches once set_rayon_initialized(true) has been called.
InitPool ==
    /\ Constructed \/ Snapshot \/ Elders \/ Feeders
    /\ THREAD_POOL_AVAILABLE = TRUE
    /\ RAYON_INITIALIZED \in BOOLEAN
    /\ hist = NoHist("new")
    /\ steps = 0
    /\ probe = NoProbe

SpecPool == InitPool /\ [][Next]_vars

-----------------------------------------------------------------------------
(* Genes::inherit_from on its own: parent genomes are drawn, and a child   *)
(* may become a parent in turn.                                            *)

MaxGenerations == 2

ProbePers == { 0, 111, 222, 333, 444, 555, 666, 777, 888, 999 }

Idle ==
    /\ agents = <<>>
    /\ resources = <<>>
    /\ time = 0
    /\ resource_spawn_timer = 0
    /\ spatial_grid = EmptyGrid
    /\ THREAD_POOL_AVAILABLE = FALSE
    /\ RAYON_INITIALIZED = FALSE
    /\ hist = NoHist("new")
    /\ steps = 0

UnchangedSimulation ==
    UNCHANGED <<agents, resources, time, resource_spawn_timer, spatial_grid,
                THREAD_POOL_AVAILABLE, RAYON_INITIALIZED, hist>>

InitGenes ==
    /\ Idle
    /\ \E pa \in ProbePers, pb \in ProbePers :
         probe = [fn |-> "Genes::new", self |-> NewGenes(pa), other |-> NewGenes(pb)]

\* child = self.inherit_from(other, self.mutation_rate), as create_offspring calls it;
\* the child then takes the place of `self`
InheritFrom ==
    /\ probe.fn = "Genes::new"
    /\ steps < MaxGenerations
    /\ \E k \in 1..DrawCount, i \in 1..Len(Noises) :
         probe' = [ fn |-> "inherit_from", self |-> probe.self, other |-> probe.other,
                    child |-> inherit_from(probe.self, probe.other,
                                           probe.self.mutation_rate,
                                           OffspringDraw(k, i).genes) ]
    /\ steps' = steps + 1
    /\ UnchangedSimulation

\* the child becomes a parent
Mature ==
    /\ probe.fn = "inherit_from"
    /\ steps < MaxGenerations
    /\ probe' = [fn |-> "Genes::new", self |-> probe.child, other |-> probe.other]
    /\ UNCHANGED steps
    /\ UnchangedSimulation

NextGenes == InheritFrom \/ Mature

SpecGenes == InitGenes /\ [][NextGenes]_vars

-----------------------------------------------------------------------------
(* Resource::consume on its own                                            *)

ProbeEnergies == { 0, 3 * EnergyScale, 5 * EnergyScale + 1, 40 * EnergyScale }
ProbeAmounts == { 0, 1, 3 * EnergyScale, 25 * EnergyScale, 200 * EnergyScale }

InitConsume ==
    /\ Idle
    /\ \E k \in 1..Len(ResourceSamples), kind \in ResourceKinds, e \in ProbeEnergies :
         probe = [ fn |-> "Resource",
                   resource |-> [SnapshotResource(k, kind) EXCEPT !.energy = e] ]

Consume ==
    /\ steps < MaxSteps
    /\ \E amount \in ProbeAmounts :
         LET c == consume(probe.resource, amount)
         IN  probe' = [ fn |-> "consume", before |-> probe.resource, amount |-> amount,
                        resource |-> c.resource, consumed |-> c.consumed ]
    /\ steps' = steps + 1
    /\ UnchangedSimulation

NextConsume == Consume

SpecConsume == InitConsume /\ [][NextConsume]_vars

-----------------------------------------------------------------------------
(* The spatial index on its own: a placement is bucketed, then queried     *)

GridPoints ==
    { <<0, 0>>, <<2999, 100>>, <<3000, 3000>>, <<6100, 200>>, <<8999, 8999>>, <<-60, 4000>>,
      <<width + 540, height>> }
QueryPoints == { <<60, 60>>, <<1300, 200>>, <<4500, 4500>>, <<8900, 100>> }
QueryRadii == { 5 * PosScale, 50 * PosScale, 100 * PosScale }

Placed(p, i) ==
    NewAgent(p[1], p[2], NewGenes(Pick(GenePers, i)), 0, Pick(Angles, i))

\* the index as a tick left it when the collection held three agents, all in one cell
StaleGrid == [c \in Cells |-> IF c = <<1, 1>> THEN <<1, 2, 3>> ELSE <<>>]

InitGrid ==
    /\ \E p1 \in GridPoints, p2 \in GridPoints : agents = <<Placed(p1, 1), Placed(p2, 2)>>
    /\ resources = <<>>
    /\ time = 0
    /\ resource_spawn_timer = 0
    /\ spatial_grid \in {EmptyGrid, StaleGrid}
    /\ THREAD_POOL_AVAILABLE = FALSE
    /\ RAYON_INITIALIZED = FALSE
    /\ hist = NoHist("new")
    /\ steps = 0
    /\ probe = NoProbe

\* update_spatial_grid()
Rebuild ==
    /\ steps = 0
    /\ spatial_grid' = update_spatial_grid(agents)
    /\ steps' = 1
    /\ probe' = [fn |-> "update_spatial_grid", before |-> spatial_grid]
    /\ UNCHANGED <<agents, resources, time, resource_spawn_timer, THREAD_POOL_AVAILABLE,
                   RAYON_INITIALIZED, hist>>

\* get_nearby_agents(x, y, radius) of both engines on the grid just rebuilt
Query ==
    /\ probe.fn = "update_spatial_grid"
    /\ \E q \in QueryPoints, radius \in QueryRadii :
         probe' = [ fn |-> "get_nearby_agents", x |-> q[1], y |-> q[2], radius |-> radius,
                    nearby |-> get_nearby_agents(spatial_grid, q[1], q[2], radius),
                    legacy |-> LegacyGetNearbyAgents(spatial_grid, agents, q[1], q[2],
                                                     radius) ]
    /\ UNCHANGED steps
    /\ UnchangedSimulation

NextGrid == Rebuild \/ Query

SpecGrid == InitGrid /\ [][NextGrid]_vars

-----------------------------------------------------------------------------
(* Properties                                                              *)

InSeq(i, q) == \E j \in 1..Len(q) : q[j] = i

Ticked == hist.op = "update"

TraitRange(t) ==
    LET i == CHOOSE j \in 1..Len(TraitNames) : TraitNames[j] = t
    IN  <<ClampArms[2 * i - 1][3], ClampArms[2 * i][3]>>

\* C2: every trait of a genome produced by inherit_from lies within that trait's
\* own documented range.
C2_TraitsWithinRange ==
    probe.fn = "inherit_from" =>
        \A t \in Traits : /\ TraitRange(t)[1] <= probe.child[t]
                          /\ probe.child[t] <= TraitRange(t)[2]

\* C2, the failing case: two parents from Genes::new have a child whose speed is
\* above the speed range.
C2_SpeedAboveRange ==
    /\ probe.fn = "inherit_from"
    /\ probe.self.speed <= TraitRange("speed")[2]
    /\ probe.other.speed <= TraitRange("speed")[2]
    /\ probe.child.speed > TraitRange("speed")[2]

\* C3: an agent whose energy is 0 or less, or whose age is over the ceiling, at the
\* start of a tick is absent from the collection after the cleanup pass of that tick.
C3_DoomedRemoved == (Ticked /\ hist.gate) => hist.doomed_kept = 0

\* C3, the case: a tick that started with such an agent ran its cleanup pass.
C3_DoomedMetCleanup == Ticked /\ hist.gate /\ hist.doomed > 0 /\ hist.removed > 0

\* C4: every update() removes the dead agents and the fully depleted resources, so
\* after any tick no dying agent and no faded-out resource is left.
C4_CleanupEveryTick ==
    Ticked =>
        /\ \A i \in 1..Len(agents) : ~agents[i].is_dying
        /\ \A k \in 1..Len(resources) :
             ~resources[k].is_depleting \/ resources[k].deplete_fade < FadeFull

\* C4, the failing case: a tick whose reproduction gate failed left a dying agent.
C4_DeadLeftBehind ==
    Ticked /\ ~hist.gate /\ \E i \in 1..Len(agents) : agents[i].is_dying

\* C5: at the end of every tick every agent of the collection has
\* 0 <= energy <= max_energy.
C5_EnergyWithinBounds ==
    Ticked =>
        \A i \in 1..Len(agents) :
            0 <= agents[i].energy /\ agents[i].energy <= agents[i].max_energy

\* C5, the failing case: a tick that ran to its end left an agent above max_energy.
C5_AboveMaxAfterTick ==
    Ticked /\ hist.gate /\ \E i \in 1..Len(agents) : agents[i].energy > agents[i].max_energy

\* C6: right after a feeding event the agent's energy is at most its max_energy.
C6_FeedWithinMax ==
    \A j \in 1..Len(hist.feeds) : hist.feeds[j].energy <= hist.feeds[j].max_energy

\* C6, the case: an agent fed and the gain was cut at max_energy.
C6_FedToTheCap ==
    Ticked /\ \E j \in 1..Len(hist.feeds) : hist.feeds[j].energy = hist.feeds[j].max_energy

\* C7: an agent gains feeding energy only from a resource that is available at
\* that moment.
C7_FeedsOnlyAvailable == \A j \in 1..Len(hist.feeds) : hist.feeds[j].available

\* C7, the failing case: an agent fed on a resource that was not available.
C7_FedOnUnavailable == Ticked /\ \E j \in 1..Len(hist.feeds) : ~hist.feeds[j].available

\* C8: for energy e >= 0 and amount >= 0, consume(amount) returns min(amount, e),
\* which is at most e, and leaves the resource's energy >= 0.
C8_ConsumeBounded ==
    (probe.fn = "consume" /\ probe.before.energy >= 0 /\ probe.amount >= 0) =>
        /\ probe.consumed = Min(probe.amount, probe.before.energy)
        /\ probe.consumed <= probe.before.energy
        /\ probe.resource.energy >= 0
        /\ probe.resource.energy = probe.before.energy - probe.consumed

\* C8, the case: more was requested than the resource held.
C8_AskedForMore ==
    /\ probe.fn = "consume"
    /\ probe.before.energy > 0
    /\ probe.amount > probe.before.energy

\* the agents whose exact distance to the query point is within the radius
WithinRadius ==
    { i \in 1..Len(agents) :
        DistSq(agents[i].x, agents[i].y, probe.x, probe.y) <= probe.radius * probe.radius }

\* C9: a query made right after a rebuild returns the index of every agent whose
\* exact distance to the query point is within the radius, in either engine.
C9_NoFalseNegatives ==
    probe.fn = "get_nearby_agents" =>
        \A i \in WithinRadius : InSeq(i, probe.nearby) /\ InSeq(i, probe.legacy)

\* C9, the failing case: the legacy engine's query omits an agent within the radius
\* that the query of Simulation returns.
C9_LegacyOmits ==
    /\ probe.fn = "get_nearby_agents"
    /\ \E i \in WithinRadius : InSeq(i, probe.nearby) /\ ~InSeq(i, probe.legacy)

\* C10: when the spatial index is queried in a tick, no agent has been appended to
\* or removed from the collection since the rebuild of that tick.
C10_IndexReflectsCollection ==
    (Ticked /\ hist.queried) => (hist.offspring = 0 /\ hist.removed = 0)

\* C10, the failing case: the index was queried in a tick that appended offspring.
C10_QueriedAfterBirths == Ticked /\ hist.queried /\ hist.offspring > 0

-----------------------------------------------------------------------------
(* The engines behind UnifiedSimulation (src/src/simulation_core.rs,       *)
(* src/src/ecs.rs) next to Simulation.  `probe` names the engine and holds *)
(* its SimulationConfig; `agents` and `resources` hold the engine's        *)
(* entities.  Of an ECS entity the model keeps the components that decide  *)
(* whether it stays in the world.                                          *)

EcsMaxAgents == 10000
EcsMaxResources == 1500
EcsInitialAgents == 100
EcsInitialResources == 150

\* total_energy_cost / energy_efficiency of one tick, in millionths, for the genes
\* drawn by generate_random_genes: between 678 and 2775
EcsCosts == <<1000, 2775, 678>>

\* EcsWorld::spawn_agent with the k-th genes
EcsSpawnAgent(k, generation) ==
    [ energy |-> 80 * EnergyScale, max_energy |-> 100 * EnergyScale, age |-> 0,
      cost |-> Pick(EcsCosts, k), state |-> "Seeking", kills |-> 0,
      generation |-> generation ]

\* EcsWorld::spawn_resource and the entity of EcsWorld::add_resource
EcsSpawnResource == [energy |-> 0, age |-> 0, is_spawning |-> TRUE, is_depleting |-> FALSE]

\* EcsWorld::spawn_initial_population
EcsSpawnInitialPopulation(k) ==
    [ agents |-> [i \in 1..EcsInitialAgents |-> EcsSpawnAgent(k + i, 0)],
      resources |-> [i \in 1..EcsInitialResources |-> EcsSpawnResource] ]

\* update_agents, lines 208-215: age and energy of every agent
EcsUpdateAgents(as) ==
    [i \in 1..Len(as) |-> [as[i] EXCEPT !.age = @ + 1, !.energy = @ - as[i].cost]]

\* handle_death: entities with energy <= 0 or age > 200 are despawned
EcsHandleDeath(as) ==
    SelectSeq(as, LAMBDA a : ~(a.energy <= 0 \/ a.age > 200 * TicksPerSecond))

\* handle_reproduction; roll is `rng.gen::<f64>() < 0.1`
EcsHandleReproduction(as, roll, k) ==
    IF UnderCap(Len(as), EcsMaxAgents) /\ roll THEN Append(as, EcsSpawnAgent(k, 0)) ELSE as

\* lines 171-175 of EcsWorld::update, given the resources and the timer
EcsSpawnTimer(rs, timer) ==
    IF timer > TicksPerSecond \div 2 /\ UnderCap(Len(rs), EcsMaxResources)
    THEN [resources |-> Append(rs, EcsSpawnResource), timer |-> 0]
    ELSE [resources |-> rs, timer |-> timer]

\* LegacySimulationEngine::add_agent
LegacyAddAgent(as, config, k) ==
    IF UnderCap(Len(as), config.max_agents)
    THEN Append(as, NewAgent(Pick(Points, k)[1], Pick(Points, k)[2],
                             NewGenes(Pick(GenePers, k)), 1, Pick(Angles, k)))
    ELSE as

\* LegacySimulationEngine::add_resource
LegacyAddResource(rs, config, k) ==
    IF UnderCap(Len(rs), config.max_resources)
    THEN Append(rs, NewResource(Pick(Points, k)[1], Pick(Points, k)[2],
                                Pick(ResourceSamples, k)))
    ELSE rs

RECURSIVE LegacySpawnAgents(_, _, _, _)
\* lines 369-373: add_agent, n times
LegacySpawnAgents(as, n, config, k) ==
    IF n = 0 THEN as ELSE LegacySpawnAgents(LegacyAddAgent(as, config, k + n), n - 1, config, k)

RECURSIVE LegacySpawnResources(_, _, _, _)
\* lines 376-380: add_resource, n times
LegacySpawnResources(rs, n, config, k) ==
    IF n = 0 THEN rs
    ELSE LegacySpawnResources(LegacyAddResource(rs, config, k + n), n - 1, config, k)

\* lines 407-413: the timer has reached 1 / resource_spawn_rate (rate in thousandths)
LegacySpawnDue(timer, config) ==
    timer * config.resource_spawn_rate >= TicksPerSecond * GeneScale

\* lines 416-419 and cleanup_dead_agents
LegacyUpdateAgents(as) ==
    SelectSeq([i \in 1..Len(as) |->
                  [as[i] EXCEPT !.age = @ + 1, !.energy = @ - EnergyScale \div 600]],
              LAMBDA a : a.energy > 0)

\* lines 421-426 and cleanup_depleted_resources
LegacyUpdateResources(rs) ==
    SelectSeq([j \in 1..Len(rs) |->
                  [rs[j] EXCEPT !.age = @ + 1,
                                !.energy = IF @ < rs[j].max_energy
                                           THEN @ + (rs[j].regeneration_rate * 1000)
                                                       \div TicksPerSecond
                                           ELSE @]],
              LAMBDA r : r.energy > 0)

\* SimulationStats of an engine that holds no agents (the early return of get_stats);
\* of the averages the model keeps average_age
NoStats ==
    [ agent_count |-> 0, resource_count |-> 0, total_energy |-> 0, average_age |-> 0,
      max_generation |-> 0, total_kills |-> 0 ]

\* what get_stats accumulates of one agent: energy (in thousandths), age, kills
\* and generation
StatsOf(a) ==
    [energy |-> a.energy \div 1000, age |-> a.age, kills |-> a.kills, gen |-> a.generation]

\* two accumulators joined, keeping the generation of the second
StatsJoinLast(s, t) ==
    [ energy |-> s.energy + t.energy, age |-> s.age + t.age, kills |-> s.kills + t.kills,
      gen |-> t.gen ]

\* two accumulators joined: the sums, and `g1.max(g2)`
StatsJoin(s, t) ==
    [ energy |-> s.energy + t.energy, age |-> s.age + t.age, kills |-> s.kills + t.kills,
      gen |-> Max(s.gen, t.gen) ]

RECURSIVE StatsFold(_, _, _)
\* the accumulator of get_stats over the agents lo..hi; the sums of the model are
\* exact, so the order in which the fold joins them does not show
StatsFold(as, lo, hi) ==
    IF lo = hi THEN StatsJoin([energy |-> 0, age |-> 0, kills |-> 0, gen |-> 0],
                              StatsOf(as[lo]))
    ELSE StatsJoin(StatsFold(as, lo, (lo + hi) \div 2),
                   StatsFold(as, (lo + hi) \div 2 + 1, hi))

\* get_stats of Simulation, EcsSimulationEngine and LegacySimulationEngine
get_stats(as, rs) ==
    IF Len(as) = 0 THEN [NoStats EXCEPT !.resource_count = Len(rs)]
    ELSE [ agent_count |-> Len(as), resource_count |-> Len(rs),
           total_energy |-> StatsFold(as, 1, Len(as)).energy,
           average_age |-> Div(StatsFold(as, 1, Len(as)).age, Len(as)),
           max_generation |-> StatsFold(as, 1, Len(as)).gen,
           total_kills |-> StatsFold(as, 1, Len(as)).kills ]

\* <<max_agents, max_resources, initial_agents, initial_resources, resource_spawn_rate>>
Config(c) ==
    [ max_agents |-> c[1], max_resources |-> c[2], initial_agents |-> c[3],
      initial_resources |-> c[4], resource_spawn_rate |-> c[5] ]

\* the configurations of headless_simulation_v2.rs and web_simulation.rs, and one
\* whose caps lie just above the population the ECS world starts with
EcsConfigs ==
    { Config(<<5000, 2000, 500, 500, 200>>), Config(<<10000, 1500, 500, 500, 200>>),
      Config(<<EcsInitialAgents + 1, EcsInitialResources + 1, EcsInitialAgents,
               EcsInitialResources, 200>>) }

LegacyConfigs ==
    { Config(<<max_agents \div 5, max_resources \div 5, InitialCount(max_agents) + 1,
               InitialCount(max_resources) + 1, 200>>),
      Config(<<max_agents \div 5, max_resources \div 5, max_agents \div 5,
               max_resources \div 5, 200>>),
      Config(<<max_agents \div 5, max_resources \div 5, 1, 1, 200>>) }

\* the engine behind UnifiedSimulation, its configuration and the SimulationStats it
\* returned last
Engine(name, config) ==
    [fn |-> "UnifiedSimulation", engine |-> name, config |-> config, stats |-> NoStats]

\* EcsSimulationEngine::new, some ticks into the last spawn interval or not, with
\* the first agent fresh or at the age ceiling
InitEcs ==
    \E config \in EcsConfigs, timer \in {0, TicksPerSecond \div 2}, old \in BOOLEAN :
        /\ probe = Engine("ecs", config)
        /\ agents = [ EcsSpawnInitialPopulation(1).agents
                        EXCEPT ![1].age = IF old THEN 200 * TicksPerSecond ELSE 0 ]
        /\ resources = EcsSpawnInitialPopulation(1).resources
        /\ resource_spawn_timer = timer

\* LegacySimulationEngine::new, likewise
InitLegacy ==
    \E config \in LegacyConfigs, timer \in {0, 5 * TicksPerSecond - 1}, starved \in BOOLEAN :
        /\ probe = Engine("legacy", config)
        /\ agents = [ LegacySpawnAgents(<<>>, config.initial_agents, config, 1)
                        EXCEPT ![1].energy = IF starved THEN 1000 ELSE @ ]
        /\ resources = LegacySpawnResources(<<>>, config.initial_resources, config, 1)
        /\ resource_spawn_timer = timer

\* Simulation with its population at or just below the caps
InitSimulation ==
    \E n \in {max_agents - 1, max_agents}, m \in {max_resources - 1, max_resources},
       s \in {"young", "ripening"} :
        /\ probe = Engine("simulation",
                          Config(<<max_agents, max_resources, InitialCount(max_agents),
                                   InitialCount(max_resources), 2000>>))
        /\ agents = SnapshotAgents(n, <<s, "young", "available">>)
        /\ resources = [k \in 1..m |-> SnapshotResource(k, "available")]
        /\ resource_spawn_timer = 0

InitEngines ==
    /\ InitEcs \/ InitLegacy \/ InitSimulation
    /\ time = SnapshotTime
    /\ spatial_grid = EmptyGrid
    /\ THREAD_POOL_AVAILABLE = FALSE
    /\ RAYON_INITIALIZED = FALSE
    /\ hist = NoHist("new")
    /\ steps = 0

EngineHist(op, before) == hist' = [NoHist(op) EXCEPT !.before = before]

UnchangedEngine == UNCHANGED <<spatial_grid, THREAD_POOL_AVAILABLE, RAYON_INITIALIZED, probe>>

\* EcsSimulationEngine::update: EcsWorld::update
EcsUpdate ==
    /\ probe.engine = "ecs"
    /\ steps < MaxSteps
    /\ \E roll \in BOOLEAN :
         agents' = EcsHandleReproduction(EcsHandleDeath(EcsUpdateAgents(agents)), roll,
                                         steps + 1)
    /\ resources' = EcsSpawnTimer([j \in 1..Len(resources) |->
                                      [resources[j] EXCEPT !.age = @ + 1]],
                                  resource_spawn_timer + 1).resources
    /\ resource_spawn_timer' = EcsSpawnTimer(resources, resource_spawn_timer + 1).timer
    /\ time' = time + 1
    /\ EngineHist("update", Len(agents))
    /\ steps' = steps + 1
    /\ UnchangedEngine

\* LegacySimulationEngine::update
LegacyUpdate ==
    /\ probe.engine = "legacy"
    /\ steps < MaxSteps
    /\ agents' = LegacyUpdateAgents(agents)
    /\ resources' =
         LegacyUpdateResources(
             IF LegacySpawnDue(resource_spawn_timer + 1, probe.config)
             THEN LegacyAddResource(resources, probe.config, steps + 1)
             ELSE resources)
    /\ resource_spawn_timer' =
         IF LegacySpawnDue(resource_spawn_timer + 1, probe.config) THEN 0
         ELSE resource_spawn_timer + 1
    /\ time' = time + 1
    /\ EngineHist("update", Len(agents))
    /\ steps' = steps + 1
    /\ UnchangedEngine

\* SimulationEngine::add_agent of either engine
EngineAddAgent ==
    /\ probe.engine \in {"ecs", "legacy"}
    /\ steps < MaxSteps
    /\ agents' =
         IF probe.engine = "legacy" THEN LegacyAddAgent(agents, probe.config, steps + 1)
         ELSE IF /\ UnderCap(Len(agents), probe.config.max_agents)
                 /\ UnderCap(Len(agents), EcsMaxAgents)
              THEN Append(agents, EcsSpawnAgent(steps + 1, 0))
              ELSE agents
    /\ EngineHist("add_agent", Len(agents))
    /\ steps' = steps + 1
    /\ UNCHANGED <<resources, time, resource_spawn_timer>>
    /\ UnchangedEngine

\* SimulationEngine::add_resource of either engine
EngineAddResource ==
    /\ probe.engine \in {"ecs", "legacy"}
    /\ steps < MaxSteps
    /\ resources' =
         IF probe.engine = "legacy" THEN LegacyAddResource(resources, probe.config, steps + 1)
         ELSE IF /\ UnderCap(Len(resources), probe.config.max_resources)
                 /\ UnderCap(Len(resources), EcsMaxResources)
              THEN Append(resources, EcsSpawnResource)
              ELSE resources
    /\ EngineHist("add_resource", Len(resources))
    /\ steps' = steps + 1
    /\ UNCHANGED <<agents, time, resource_spawn_timer>>
    /\ UnchangedEngine

\* SimulationEngine::reset of either engine
EngineReset ==
    /\ probe.engine \in {"ecs", "legacy"}
    /\ steps < MaxSteps
    /\ agents' =
         IF probe.engine = "legacy"
         THEN LegacySpawnAgents(<<>>, probe.config.initial_agents, probe.config, steps + 1)
         ELSE EcsSpawnInitialPopulation(steps + 1).agents
    /\ resources' =
         IF probe.engine = "legacy"
         THEN LegacySpawnResources(<<>>, probe.config.initial_resources, probe.config,
                                   steps + 1)
         ELSE EcsSpawnInitialPopulation(steps + 1).resources
    /\ time' = 0
    /\ resource_spawn_timer' = 0
    /\ EngineHist("reset", Len(agents))
    /\ steps' = steps + 1
    /\ UnchangedEngine

\* add_agent, add_resource and reset of Simulation
SimulationCall ==
    /\ probe.engine = "simulation"
    /\ AddAgent \/ AddResource \/ Reset

NextEngines ==
    EcsUpdate \/ LegacyUpdate \/ EngineAddAgent \/ EngineAddResource \/ EngineReset
    \/ SimulationCall

SpecEngines == InitEngines /\ [][NextEngines]_vars

\* the caps in force: those of the configuration, and under the ECS engine those
\* of the world as well
AgentCap ==
    IF probe.engine = "ecs" THEN Min(probe.config.max_agents, EcsMaxAgents)
    ELSE probe.config.max_agents

ResourceCap ==
    IF probe.engine = "ecs" THEN Min(probe.config.max_resources, EcsMaxResources)
    ELSE probe.config.max_resources

\* C11: add_agent adds exactly one agent when the agent count is below the agent
\* cap and otherwise leaves the count as it was; add_resource does the same
\* against the resource cap; so neither call pushes a count from within its cap
\* to above it.
C11_AddRespectsCap ==
    /\ hist.op = "add_agent" =>
         /\ Len(agents) = IF hist.before < AgentCap THEN hist.before + 1 ELSE hist.before
         /\ hist.before <= AgentCap => Len(agents) <= AgentCap
    /\ hist.op = "add_resource" =>
         /\ Len(resources) = IF hist.before < ResourceCap THEN hist.before + 1
                             ELSE hist.before
         /\ hist.before <= ResourceCap => Len(resources) <= ResourceCap

\* C11, the case at the cap: add_agent was called on a full population and left it full.
C11_RefusedAtCap ==
    hist.op = "add_agent" /\ hist.before = AgentCap /\ Len(agents) = AgentCap

\* C12: after reset() the agent count is the configured initial agent count and
\* the resource count is the configured initial resource count, whatever the
\* state before it (so a second reset() gives the same counts as the first).
C12_ResetSeedsConfigured ==
    hist.op = "reset" =>
        /\ Len(agents) = probe.config.initial_agents
        /\ Len(resources) = probe.config.initial_resources

\* C12, the failing case: reset() of the ECS engine configured with 500 initial
\* agents and 500 initial resources left the 100 agents and 150 resources that
\* spawn_initial_population hard-codes.
C12_EcsIgnoresConfig ==
    /\ hist.op = "reset" /\ probe.engine = "ecs"
    /\ probe.config.initial_agents = 500 /\ Len(agents) = EcsInitialAgents
    /\ probe.config.initial_resources = 500 /\ Len(resources) = EcsInitialResources

-----------------------------------------------------------------------------
(* Agent::create_offspring and Genes::inherit_from on a pair of parents    *)
(* of any two generations                                                  *)

ParentPers == { 0, 111, 555, 999 }

Parent(per, generation, i) ==
    NewAgent(AgentX(i), AgentY(i), NewGenes(per), generation, Pick(Angles, i))

InitOffspring ==
    /\ Idle
    /\ \E pa \in ParentPers, pb \in ParentPers,
          ga \in 0..MaxGenerations, gb \in 0..MaxGenerations :
         probe = [fn |-> "Agent::new", self |-> Parent(pa, ga, 1), other |-> Parent(pb, gb, 2)]

\* self.create_offspring(other)
CreateOffspring ==
    /\ probe.fn = "Agent::new"
    /\ \E k \in 1..DrawCount :
         probe' = [ fn |-> "create_offspring", self |-> probe.self, other |-> probe.other,
                    offspring |-> create_offspring(probe.self, probe.other,
                                                   OffspringDraw(k, 1)) ]
    /\ UNCHANGED steps
    /\ UnchangedSimulation

\* the value of `gene` at line 120 for every trait, under the draws d
BeforeClamp(self, other, mutation_rate, d) ==
    [ t \in Traits |->
        BlendAndMutate(self[t], other[t], mutation_rate, d[t][1], d[t][2], d[t][3]) ]

\* self.genes.inherit_from(other.genes, 0.0)
InheritUnmutated ==
    /\ probe.fn = "Agent::new"
    /\ \E k \in 1..DrawCount :
         probe' = [ fn |-> "inherit_from", self |-> probe.self, other |-> probe.other,
                    mutation_rate |-> 0, blend |-> Pick(Blends, k),
                    before_clamp |-> BeforeClamp(probe.self.genes, probe.other.genes, 0,
                                                 OffspringDraw(k, 1).genes),
                    child |-> inherit_from(probe.self.genes, probe.other.genes, 0,
                                           OffspringDraw(k, 1).genes) ]
    /\ UNCHANGED steps
    /\ UnchangedSimulation

NextOffspring == CreateOffspring \/ InheritUnmutated

SpecOffspring == InitOffspring /\ [][NextOffspring]_vars

\* C13: every offspring has generation = max(generation of parent A, generation
\* of parent B) + 1, for any pair of parents.
C13_GenerationIsMaxPlusOne ==
    probe.fn = "create_offspring" =>
        probe.offspring.generation
            = Max(probe.self.generation, probe.other.generation) + 1

\* C13, the failing case: a parent of generation 0 reproduced with a mate of
\* generation 1 and the offspring is of generation 1.
C13_MateGenerationIgnored ==
    /\ probe.fn = "create_offspring"
    /\ probe.self.generation = 0 /\ probe.other.generation = 1
    /\ probe.offspring.generation = 1

\* C14: with mutation rate 0 each trait of inherit(A, B, 0) is, before clamping,
\* strictly between the parents' values of that trait when they differ and equal
\* to them when they are equal, for every blend factor drawn.
C14_BlendBetweenParents ==
    probe.fn = "inherit_from" =>
        \A t \in Traits :
            LET a == probe.self.genes[t]
                b == probe.other.genes[t]
                g == probe.before_clamp[t]
            IN  IF a = b THEN g = a ELSE Min(a, b) < g /\ g < Max(a, b)

\* C14, the failing case: both parents have the same speed and the blend of it,
\* unmutated and not yet clamped, is below that speed.
C14_EqualParentsBlendBelow ==
    /\ probe.fn = "inherit_from"
    /\ probe.self.genes.speed = probe.other.genes.speed
    /\ probe.before_clamp.speed < probe.self.genes.speed

-----------------------------------------------------------------------------
(* Agent::update on its own: one agent in any behaviour state, with or     *)
(* without a target, among the resources in `resources` and the agents in  *)
(* `agents`                                                                *)

AgentStates == { "Seeking", "Hunting", "Feeding", "Reproducing", "Fighting", "Fleeing" }

\* a child of two agents of Genes::new: is_predator is 5.0 after the match of mutate_gene
ChildGenes == inherit_from(NewGenes(500), NewGenes(250), 50, OffspringDraw(1, 1).genes)

\* targets: none, the place of the first resource, the place of the second agent, one
\* within sense range, one beyond it
ProbeTargets ==
    { <<>>, <<ResourceX(1), ResourceY(1)>>, <<AgentX(2), AgentY(2)>>, <<3200, 4000>>,
      <<9000, 1500>> }

\* vigour = <<age, energy>>
ProbeAgent(genes, state, vigour, target) ==
    [ Aged(NewAgent(AgentX(1), AgentY(1), genes, 0, Pick(Angles, 1)), vigour[1],
           vigour[2], state)
        EXCEPT !.target_x = IF target = <<>> THEN None ELSE Some(target[1]),
               !.target_y = IF target = <<>> THEN None ELSE Some(target[2]) ]

\* the resources around the agent: none, one within reach, one out of reach, and two
\* within reach of which the second is the nearer
ProbeResources ==
    { <<>>, <<SnapshotResource(1, "available")>>, <<SnapshotResource(1, "depleting")>>,
      <<SnapshotResource(2, "available")>>,
      << [SnapshotResource(2, "available") EXCEPT !.x = AgentX(1), !.y = AgentY(1) + 240],
         SnapshotResource(1, "available") >> }

\* the agents around it: none, a prey within reach, a predator within reach, and a
\* predator 40 units away, within the sense range of Genes::new and beyond half of it
ProbeOthers ==
    { <<>>,
      <<Aged(NewAgent(AgentX(2), AgentY(2), NewGenes(250), 0, Pick(Angles, 2)), 90,
             60 * EnergyScale, "Seeking")>>,
      <<Aged(NewAgent(AgentX(2), AgentY(2), ChildGenes, 1, Pick(Angles, 2)), 90,
             60 * EnergyScale, "Seeking")>>,
      <<Aged(NewAgent(AgentX(1) + 40 * PosScale, AgentY(1), ChildGenes, 1, Pick(Angles, 2)),
             90, 60 * EnergyScale, "Seeking")>> }

InitAgent ==
    /\ \E genes \in {NewGenes(500), ChildGenes}, state \in AgentStates,
          vigour \in {<<60, 50 * EnergyScale>>, <<150, 50 * EnergyScale>>, <<90, 600>>,
                      <<200 * TicksPerSecond - 1, 50 * EnergyScale>>},
          target \in ProbeTargets :
         probe = [fn |-> "Agent", agent |-> ProbeAgent(genes, state, vigour, target)]
    /\ resources \in ProbeResources
    /\ agents \in ProbeOthers
    /\ time = 0
    /\ resource_spawn_timer = 0
    /\ spatial_grid = EmptyGrid
    /\ THREAD_POOL_AVAILABLE = FALSE
    /\ RAYON_INITIALIZED = FALSE
    /\ hist = NoHist("new")
    /\ steps = 0

\* probe.agent.update(1/60, &resources, &agents, width, height); `acted` is the
\* agent as the state action left it, `early` whether update returned before it
UpdateAgent ==
    /\ steps < MaxSteps
    /\ \E k \in 1..DrawCount :
         LET a2 == Metabolism(probe.agent, width, height)
         IN  probe' =
               [ fn |-> "Agent", self |-> probe.agent,
                 early |-> ReturnsEarly(probe.agent, a2),
                 acted |-> StateAction(a2, resources, agents, AgentDraw(k, 1).angle).agent,
                 agent |-> AgentUpdate(probe.agent, resources, agents, width, height,
                                       AgentDraw(k, 1)).agent,
                 consumed |-> AgentUpdate(probe.agent, resources, agents, width, height,
                                          AgentDraw(k, 1)).consumed ]
    /\ steps' = steps + 1
    /\ UnchangedSimulation

NextAgent == UpdateAgent

SpecAgent == InitAgent /\ [][NextAgent]_vars

Updated == steps > 0 /\ ~probe.early

\* the changes of state the state action may make
Allowed ==
    [ Seeking |-> {"Seeking", "Hunting", "Fleeing"},
      Hunting |-> {"Hunting", "Feeding", "Fighting", "Seeking"},
      Feeding |-> {"Seeking", "Reproducing"},
      Fighting |-> {"Seeking", "Fleeing"},
      Fleeing |-> {"Fleeing", "Seeking"},
      Reproducing |-> {"Seeking"} ]

\* C15: for a live agent the state action changes the behaviour state only along
\* Seeking -> Seeking/Hunting/Fleeing, Hunting -> Hunting/Feeding/Fighting/Seeking,
\* Feeding -> Seeking/Reproducing, Fighting -> Seeking/Fleeing, Fleeing ->
\* Fleeing/Seeking, Reproducing -> Seeking; the only other change of state in the
\* tick is the eligibility check after movement, which forces Reproducing.
C15_TransitionsAllowed ==
    steps > 0 =>
        IF probe.early THEN probe.agent.state = probe.self.state
        ELSE /\ probe.acted.state \in Allowed[probe.self.state]
             /\ probe.agent.state \in {probe.acted.state, "Reproducing"}
             /\ probe.agent.state /= probe.acted.state => can_reproduce(probe.agent)

\* C15, a case: a Hunting agent reached its target, turned to Feeding, and the
\* check after movement forced Reproducing.
C15_FeedingThenForced ==
    /\ Updated /\ probe.self.state = "Hunting"
    /\ probe.acted.state = "Feeding" /\ probe.agent.state = "Reproducing"

\* TRUE when no resource lies within the interaction radius of agent a
NothingInReach(a) ==
    \A k \in 1..Len(resources) :
        DistSq(resources[k].x, resources[k].y, a.x, a.y) >= (5 * PosScale) * (5 * PosScale)

\* C16: an agent Hunting with no target, or Feeding with no resource inside the
\* interaction radius, ends its state action in Seeking with its target cleared,
\* and its update completes.
C16_LostTargetFallsBack ==
    (/\ Updated
     /\ \/ probe.self.state = "Hunting" /\ probe.self.target_x = None
        \/ probe.self.state = "Feeding" /\ NothingInReach(probe.self))
    => /\ probe.acted.state = "Seeking"
       /\ probe.acted.target_x = None /\ probe.acted.target_y = None
       /\ probe.agent.state \in {"Seeking", "Reproducing"}

\* C16, a case: a Feeding agent whose target is set found no resource within
\* reach and went back to Seeking.
C16_FeedingFoundNothing ==
    /\ Updated /\ probe.self.state = "Feeding" /\ probe.self.target_x /= None
    /\ resources /= <<>> /\ NothingInReach(probe.self)
    /\ probe.acted.state = "Seeking" /\ probe.acted.target_x = None

-----------------------------------------------------------------------------
(* The agent phase of Simulation::update on its own: the same population   *)
(* and the same draws taken through the sequential loop and through the    *)
(* parallel map with its commit                                            *)

\* a snapshot of three agents of which the last is a child, a predator by its
\* is_predator gene, some ticks after its birth next to its parents
Hunted ==
    \E s \in {"fresh", "young", "ripening"} :
        /\ agents = [ SnapshotAgents(3, <<s, "young", "available">>)
                        EXCEPT ![3] = Aged(NewAgent(AgentX(3), AgentY(3), ChildGenes, 1,
                                                    Pick(Angles, 3)),
                                           30, 75 * EnergyScale, "Seeking") ]
        /\ resources = SnapshotResources(3, <<s, "young", "available">>)
        /\ time = SnapshotTime
        /\ resource_spawn_timer = TicksPerSecond \div 2
        /\ spatial_grid = update_spatial_grid(agents)

InitPhases ==
    /\ Snapshot \/ Hunted
    /\ THREAD_POOL_AVAILABLE = FALSE
    /\ RAYON_INITIALIZED = FALSE
    /\ hist = NoHist("new")
    /\ steps = 0
    /\ probe = NoProbe

\* lines 174-208 both ways, with the draws of sample k
AgentPhase ==
    /\ steps = 0
    /\ \E k \in 1..DrawCount :
         probe' = [ fn |-> "agent_phase", k |-> k,
                    sequential |-> AgentsSequential(agents, resources, 1, k, <<>>),
                    parallel |-> AgentsParallel(agents, resources, k) ]
    /\ steps' = 1
    /\ UnchangedSimulation

NextPhases == AgentPhase

SpecPhases == InitPhases /\ [][NextPhases]_vars

Phased == probe.fn = "agent_phase"

Marked(rs) == { j \in 1..Len(rs) : rs[j].is_depleting }

SameResult(a, b) ==
    /\ a.state = b.state
    /\ a.target_x = b.target_x /\ a.target_y = b.target_y
    /\ a.energy = b.energy

\* C17: from the same start state and with the same draws, the sequential and
\* the parallel agent phase leave every agent with the same state, target and
\* energy, and mark the same set of resources depleting.
C17_PhasesAgree ==
    Phased =>
        /\ \A i \in 1..Len(agents) :
             SameResult(probe.sequential.agents[i], probe.parallel.agents[i])
        /\ Marked(probe.sequential.resources) = Marked(probe.parallel.resources)

\* C17, the failing case: the first agent fed on the first resource, and the
\* second agent, Seeking, took that resource as its target in the parallel phase
\* but not in the sequential one, where it was already marked.
C17_MarkSeenSequentially ==
    /\ Phased
    /\ 1 \in Marked(probe.parallel.resources) \ Marked(resources)
    /\ probe.parallel.agents[2].target_x = Some(resources[1].x)
    /\ probe.sequential.agents[2].target_x /= Some(resources[1].x)

C19_SequentialWhenUnavailable ==
    (Ticked /\ ~hist.parallel) => hist.dispatched = {}

\* C19, the failing case: a tick with the pool unavailable passed the
\* reproduction gate and ran perform_complex_calculations through par_iter.
C19_CalculationsOnPool ==
    Ticked /\ ~hist.parallel /\ hist.gate /\ "calculations" \in hist.dispatched

\* C20: under either engine of UnifiedSimulation, after any sequence of update,
\* add_agent, add_resource and reset, the agent count is at most the configured
\* max_agents and the resource count at most the configured max_resources.
C20_EnginesWithinCaps ==
    probe.engine \in {"ecs", "legacy"} =>
        /\ Len(agents) <= probe.config.max_agents
        /\ Len(resources) <= probe.config.max_resources

\* C20, the failing case: the ECS engine was at its configured agent cap and
\* update() spawned one more agent.
C20_EcsBirthAboveCap ==
    /\ probe.engine = "ecs" /\ hist.op = "update"
    /\ hist.before = probe.config.max_agents
    /\ Len(agents) > probe.config.max_agents

-----------------------------------------------------------------------------
(* Simulation::update taken twice from the same state with the same draws, *)
(* and once more with other fitness values                                 *)

\* the engine state that a tick hands back
EngineState(t) ==
    [agents |-> t.agents, resources |-> t.resources, resource_spawn_timer |-> t.timer]

\* the results of two runs that continue the tick from the state b reached at line
\* 300: the parallel sums are halved d1 times in the first run and d2 times in the
\* second, where every fitness score is raised by `shift`
TwoRuns(name, b, d1, d2, shift) ==
    [ fn |-> name, gate |-> b.hist.gate,
      first |-> EngineState(AfterUpdate(b, d1, 0)),
      second |-> EngineState(AfterUpdate(b, d2, shift)) ]

\* update() in two runs that get the draws of sample k; how rayon groups the
\* additions of its sums is the scheduler's choice in each run
UpdateTwice ==
    /\ steps = 0
    /\ \E k \in 1..DrawCount, d1 \in 1..MaxSplits, d2 \in 1..MaxSplits :
         probe' = TwoRuns("update twice", BeforeCalculations(k), d1, d2, 0)
    /\ steps' = 1
    /\ UnchangedSimulation

\* update() in two runs that differ only in what line 546 gets as the fitness: in
\* the second every score is 1.0 higher
UpdateRescored ==
    /\ steps = 0
    /\ \E k \in 1..DrawCount, depth \in 1..MaxSplits :
         probe' = TwoRuns("update rescored", BeforeCalculations(k), depth, depth, GeneScale)
    /\ steps' = 1
    /\ UnchangedSimulation

NextRuns == UpdateTwice \/ UpdateRescored

SpecRuns == Init /\ [][NextRuns]_vars

\* C21: on the sequential path two runs that start from the same state and get
\* the same random draws have the same agents and the same resources (counts
\* and states) after the tick.
C21_SequentialDeterministic ==
    probe.fn = "update twice" => probe.first = probe.second

\* C21, the failing case: the two runs got the same draws and ended the tick with
\* the same counts, but a resource's energy differs between them.
C21_SumOrderShows ==
    /\ probe.fn = "update twice"
    /\ ~is_rayon_available
    /\ Len(probe.first.agents) = Len(probe.second.agents)
    /\ Len(probe.first.resources) = Len(probe.second.resources)
    /\ \E j \in 1..Len(probe.first.resources) :
         probe.first.resources[j].energy /= probe.second.resources[j].energy

\* C22: the engine state after a tick does not depend on the values the genome
\* fitness function returns: two runs that differ only in those values end the
\* tick with the same agents and resources.
C22_FitnessOnlyReported ==
    probe.fn = "update rescored" => probe.first = probe.second

\* C22, the failing case: with every fitness value 1.0 higher, every agent ends
\* the tick with 0.0001 more energy.
C22_FitnessFeedsEnergy ==
    /\ probe.fn = "update rescored" /\ probe.gate
    /\ Len(probe.first.agents) > 0
    /\ \A i \in 1..Len(probe.first.agents) :
         probe.second.agents[i].energy = probe.first.agents[i].energy + 100

-----------------------------------------------------------------------------
(* get_stats next to the calls that change what it reports                 *)

\* the largest population of InitFew
FewAgents == 3

\* Simulation a few agents strong, down to none (HeadlessSimulation::new seeds as
\* many agents as its configuration names, and agents die)
InitFew ==
    \E n \in 0..FewAgents, s \in {"zero", "young", "ripening"} :
        /\ probe = Engine("simulation",
                          Config(<<max_agents, max_resources, n, InitialCount(max_resources),
                                   2000>>))
        /\ agents = SnapshotAgents(n, <<s, "ripening", "available">>)
        /\ resources = SnapshotResources(n, <<s, "ripening", "available">>)
        /\ resource_spawn_timer = TicksPerSecond \div 2

InitStats ==
    /\ InitEcs \/ InitLegacy \/ InitFew
    /\ time = SnapshotTime
    /\ spatial_grid = EmptyGrid
    /\ THREAD_POOL_AVAILABLE = FALSE
    /\ RAYON_INITIALIZED = FALSE
    /\ hist = NoHist("new")
    /\ steps = 0

\* SimulationEngine::get_stats and Simulation::get_stats: `&self`, the result goes
\* to the caller
GetStats ==
    /\ probe' = [probe EXCEPT !.stats = get_stats(agents, resources)]
    /\ EngineHist("get_stats", Len(agents))
    /\ UNCHANGED <<agents, resources, time, resource_spawn_timer, spatial_grid,
                   THREAD_POOL_AVAILABLE, RAYON_INITIALIZED, steps>>

\* Simulation::update behind the same interface
SimulationUpdate ==
    /\ probe.engine = "simulation"
    /\ Update

NextStats == GetStats \/ SimulationUpdate \/ SimulationCall \/ EcsUpdate \/ LegacyUpdate

SpecStats == InitStats /\ [][NextStats]_vars

\* the generations and the kill counts found among the agents
Generations == { agents[i].generation : i \in 1..Len(agents) }
KillCounts == { agents[i].kills : i \in 1..Len(agents) }

C23_StatsOfNoAgents ==
    /\ hist.op = "get_stats"
    /\ Len(agents) = 0
    /\ Len(resources) > 0

-----------------------------------------------------------------------------
(* HeadlessSimulation (src/src/headless_simulation.rs): construction and   *)
(* run().  `probe` holds the harness: its configuration, the place it has  *)
(* reached, step_count, and SimulationDiagnostics as far as run() reports  *)
(* it; `agents`, `resources` and the timers are those of its Simulation.   *)
(* before and ticks record step_count at the call of run() and the ticks   *)
(* taken since.                                                            *)

\* the largest target_steps of a configuration, and the calls of run() followed
MaxTargetSteps == 3
MaxRuns == 2

\* <<width, initial_agents, target_duration_minutes (in 1/720 minute, the length of
\* one step), min_agent_count, max_agent_count>>; the caps are those of the model
HeadlessConfig(c) ==
    [ width |-> c[1], height |-> WorldHeight, max_agents |-> max_agents,
      max_resources |-> max_resources, initial_agents |-> c[2], initial_resources |-> 2,
      target_duration |-> c[3], min_agent_count |-> c[4], max_agent_count |-> c[5] ]

\* the limits on the agent count that a configuration may put on a run
CountLimits == { <<0, max_agents>>, <<FewAgents, max_agents>>, <<0, 1>> }

HeadlessConfigs ==
    { HeadlessConfig(<<0, 2, 2, 0, max_agents>>),
      HeadlessConfig(<<WorldWidth, max_agents + 1, 2, 0, max_agents>>),
      [ HeadlessConfig(<<WorldWidth, 2, 2, 0, max_agents>>)
          EXCEPT !.initial_resources = max_resources + 1 ] }
    \cup { HeadlessConfig(<<WorldWidth, n, m, l[1], l[2]>>) :
             n \in {0, 2}, m \in -1..MaxTargetSteps, l \in CountLimits }

\* `(target_duration_minutes * 60.0 * 12.0) as usize`: a negative product gives 0
TargetSteps(config) == AsU64(config.target_duration)

Harness(config, at) ==
    [ fn |-> "HeadlessSimulation", config |-> config, at |-> at, step_count |-> 0,
      runs |-> 0, before |-> 0, ticks |-> 0, early |-> FALSE,
      diagnostics |-> [ total_steps |-> 0, extinction_occurred |-> FALSE,
                        population_explosion |-> FALSE ] ]

\* HeadlessSimulation::new is called
Called ==
    /\ \E config \in HeadlessConfigs : probe = Harness(config, "Simulation::new")
    /\ agents = <<>>
    /\ resources = <<>>
    /\ time = 0
    /\ resource_spawn_timer = 0

\* a harness whose run() has taken its first tick, with a few agents of a run's
\* history; one or two more ticks reach target_steps
Underway ==
    \E n \in 1..FewAgents, s \in {"zero", "ripening"}, l \in CountLimits, more \in 1..2 :
        /\ probe = [ Harness(HeadlessConfig(<<WorldWidth, n, 1 + more, l[1], l[2]>>),
                             "run")
                       EXCEPT !.step_count = 1, !.ticks = 1, !.runs = 1 ]
        /\ ~(n > l[2] \/ n < l[1])
        /\ agents = SnapshotAgents(n, <<s, "ripening", "available">>)
        /\ resources = SnapshotResources(n, <<s, "ripening", "available">>)
        /\ time = SnapshotTime
        /\ resource_spawn_timer = TicksPerSecond \div 2

InitHeadless ==
    /\ Called \/ Underway
    /\ spatial_grid = EmptyGrid
    /\ THREAD_POOL_AVAILABLE = FALSE
    /\ RAYON_INITIALIZED = FALSE
    /\ hist = NoHist("new")
    /\ steps = 0

UnchangedWorld ==
    UNCHANGED <<time, resource_spawn_timer, spatial_grid, THREAD_POOL_AVAILABLE,
                RAYON_INITIALIZED, hist, steps>>

\* lines 71-82: Simulation::new, the caps, reset() and the two clear().
\* spawn_initial_population draws `rng.gen_range(0.0..self.width)`, which panics
\* on an empty range
NewSimulation ==
    /\ probe.at = "Simulation::new"
    /\ probe' = [probe EXCEPT !.at = IF probe.config.width <= 0 \/ probe.config.height <= 0
                                     THEN "panicked" ELSE "agents"]
    /\ UNCHANGED <<agents, resources>>
    /\ UnchangedWorld

\* lines 85-90: one turn of `while simulation.agents.len() < config.initial_agents`
SeedAgents ==
    /\ probe.at = "agents"
    /\ IF Len(agents) < probe.config.initial_agents
       THEN /\ agents' =
                 IF UnderCap(Len(agents), probe.config.max_agents)
                 THEN Append(agents,
                             NewAgent(Pick(Points, Len(agents))[1],
                                      Pick(Points, Len(agents))[2],
                                      NewGenes(Pick(GenePers, Len(agents))), 0,
                                      Pick(Angles, Len(agents))))
                 ELSE agents
            /\ UNCHANGED probe
       ELSE /\ probe' = [probe EXCEPT !.at = "resources"]
            /\ UNCHANGED agents
    /\ UNCHANGED resources
    /\ UnchangedWorld

\* lines 92-97: one turn of the same loop for the resources; then the harness is
\* returned
SeedResources ==
    /\ probe.at = "resources"
    /\ IF Len(resources) < probe.config.initial_resources
       THEN /\ resources' =
                 IF UnderCap(Len(resources), probe.config.max_resources)
                 THEN Append(resources,
                             NewResource(Pick(Points, Len(resources) + 1)[1],
                                         Pick(Points, Len(resources) + 1)[2],
                                         Pick(ResourceSamples, Len(resources))))
                 ELSE resources
            /\ UNCHANGED probe
       ELSE /\ probe' = [probe EXCEPT !.at = "returned"]
            /\ UNCHANGED resources
    /\ UNCHANGED agents
    /\ UnchangedWorld

\* a check that never ends a run early
ShouldTerminateNever(count, config) == FALSE

\* should_terminate_early, for an agent count
ShouldTerminateEarly(count, config) ==
    \/ count = 0
    \/ count > config.max_agent_count
    \/ count < config.min_agent_count

\* finalize_diagnostics, for the step count and the agent count, without the scores
\* and the history
FinalizeDiagnostics(step_count, count, config) ==
    [ total_steps |-> step_count, extinction_occurred |-> count = 0,
      population_explosion |-> count > config.max_agent_count ]

\* run() is called on a harness that new() or an earlier run() returned
Run ==
    /\ probe.at = "returned"
    /\ probe.runs < MaxRuns
    /\ probe' = [probe EXCEPT !.at = "run", !.runs = @ + 1, !.before = probe.step_count,
                              !.ticks = 0, !.early = FALSE]
    /\ UNCHANGED <<agents, resources>>
    /\ UnchangedWorld

\* the harness after the tick t of step(), and after the return of run() if
\* should_terminate_early() breaks the loop
Stepped(t) ==
    IF ShouldTerminateEarly(Len(t.agents), probe.config)
    THEN [probe EXCEPT !.at = "returned", !.step_count = @ + 1, !.ticks = @ + 1,
                       !.early = TRUE,
                       !.diagnostics = FinalizeDiagnostics(probe.step_count + 1,
                                                           Len(t.agents), probe.config)]
    ELSE [probe EXCEPT !.step_count = @ + 1, !.ticks = @ + 1]

\* step() and the check after it, for the tick t
StepTo(t) ==
    /\ Commit(t)
    /\ probe' = Stepped(t)

\* lines 132-139: one turn of `while self.step_count < target_steps`
RunStep ==
    /\ probe.at = "run"
    /\ probe.step_count < TargetSteps(probe.config)
    /\ \E k \in 1..DrawCount, depth \in 1..MaxSplits : StepTo(Tick(k, depth))
    /\ time' = time + 1
    /\ UNCHANGED <<THREAD_POOL_AVAILABLE, RAYON_INITIALIZED, steps>>

\* lines 132 and 141-142: the loop condition fails, run() finalizes and returns
RunReturn ==
    /\ probe.at = "run"
    /\ ~(probe.step_count < TargetSteps(probe.config))
    /\ probe' = [probe EXCEPT !.at = "returned",
                              !.diagnostics = FinalizeDiagnostics(probe.step_count,
                                                                  Len(agents),
                                                                  probe.config)]
    /\ UNCHANGED <<agents, resources>>
    /\ UnchangedWorld

NextHeadless == NewSimulation \/ SeedAgents \/ SeedResources \/ Run \/ RunStep \/ RunReturn

SpecHeadless == InitHeadless /\ [][NextHeadless]_vars

\* a configuration the claim calls invalid
InvalidConfig(config) ==
    \/ config.width <= 0
    \/ config.height <= 0
    \/ config.initial_agents > config.max_agents
    \/ config.initial_resources > config.max_resources

\* the seeding loop of new() has a turn to take and the turn changes nothing
SeedingStuck ==
    /\ probe.at = "agents"
    /\ Len(agents) < probe.config.initial_agents
    /\ ~UnderCap(Len(agents), probe.config.max_agents)

\* C24: with an invalid configuration (non-positive width or height, or an initial
\* population above its cap) construction neither returns an engine nor fails
\* to return.
C24_InvalidConfigRejected ==
    (probe.fn = "HeadlessSimulation" /\ InvalidConfig(probe.config)) =>
        /\ probe.at /= "returned"
        /\ ~SeedingStuck

\* C24, the failing case: initial_agents is above max_agents, the simulation
\* holds max_agents agents and new() is still in its first seeding loop.
C24_SeedingNeverEnds ==
    /\ probe.fn = "HeadlessSimulation"
    /\ probe.config.initial_agents > probe.config.max_agents
    /\ SeedingStuck
    /\ Len(agents) = probe.config.max_agents


\* run() has returned
Returned == probe.fn = "HeadlessSimulation" /\ probe.at = "returned" /\ probe.runs > 0

\* run() is in its loop
Running == probe.fn = "HeadlessSimulation" /\ probe.at = "run"

\* the agent count is one at which the claim has a run stop
OutOfLimits ==
    \/ Len(agents) = 0
    \/ Len(agents) > probe.config.max_agent_count
    \/ Len(agents) < probe.config.min_agent_count

\* what run() reports about extinction and explosion is what the agents show
FlagsAsCounted ==
    /\ probe.diagnostics.extinction_occurred <=> Len(agents) = 0
    /\ probe.diagnostics.population_explosion
         <=> Len(agents) > probe.config.max_agent_count

\* C25 as stated: every call of run() with target_steps >= 1 has taken at least
\* one tick and at most target_steps ticks when it returns, it returned before
\* step_count reached target_steps only after a tick that left the agent count
\* at 0, above max_agent_count or below min_agent_count, total_steps is the
\* number of ticks the call took, and extinction and explosion are flags.
C25_RunAsClaimed ==
    Returned =>
        /\ TargetSteps(probe.config) >= 1 => probe.ticks >= 1
        /\ probe.ticks <= TargetSteps(probe.config)
        /\ probe.step_count < TargetSteps(probe.config) => (probe.ticks >= 1 /\ OutOfLimits)
        /\ probe.diagnostics.total_steps = probe.ticks
        /\ FlagsAsCounted

\* C25 amended: step_count counts the ticks since construction; a call of run()
\* takes at most target_steps - step_count ticks, and at least one if step_count
\* was below target_steps at the call; it goes on only while the agent count is
\* within the limits and returns before step_count reaches target_steps only after a tick
\* that left the count outside them; total_steps is step_count; extinction and
\* explosion are flags.
C25_CallWithinRemaining ==
    /\ (Running \/ Returned) =>
         /\ probe.step_count = probe.before + probe.ticks
         /\ probe.ticks <= AsU64(TargetSteps(probe.config) - probe.before)
    /\ (Running /\ probe.ticks >= 1) => ~OutOfLimits
    /\ Returned =>
         /\ probe.before < TargetSteps(probe.config) => probe.ticks >= 1
         /\ probe.step_count < TargetSteps(probe.config)
              => (probe.ticks >= 1 /\ OutOfLimits)
         /\ probe.diagnostics.total_steps = probe.step_count
         /\ FlagsAsCounted

\* C25 amended: C25_CallWithinRemaining holds throughout, and every turn of the
\* loop of run() either returns or takes step_count one step closer to
\* target_steps, so that run() returns after at most target_steps - step_count
\* turns.
C25_RunReturns ==
    /\ [](C25_CallWithinRemaining)
    /\ [][Running => \/ probe'.at = "returned"
                      \/ /\ probe'.at = "run"
                         /\ probe'.step_count = probe.step_count + 1
                         /\ probe'.step_count <= TargetSteps(probe.config)]_vars

\* C25, the case the claim leaves out: a second call of run() on a harness whose
\* first call reached target_steps returns without a tick, and total_steps is
\* the count of the first call.
C25_SecondRunTakesNoTick ==
    /\ Returned
    /\ probe.runs = 2
    /\ TargetSteps(probe.config) >= 1
    /\ probe.ticks = 0
    /\ probe.diagnostics.total_steps = TargetSteps(probe.config)

\* C25, further cases: a run that ended early at extinction, and one that ended
\* early above max_agent_count.
C25_EndedAtExtinction ==
    /\ Returned
    /\ probe.step_count < TargetSteps(probe.config)
    /\ probe.diagnostics.extinction_occurred

C25_EndedAtExplosion ==
    /\ Returned
    /\ probe.step_count < TargetSteps(probe.config)
    /\ probe.diagnostics.population_explosion


\* C26: in a tick in which the agent count at the start of the reproduction pass
\* is at or above floor(0.8 * max_agents), or is more than 0.6 of max_agents, no
\* offspring is created: the tick ends with the agents it had.
C26_NoBirthsWhenCrowded ==
    (Ticked /\ (\/ hist.before >= (max_agents * 8) \div 10
                \/ hist.before * 10 > 6 * max_agents)) =>
        /\ hist.offspring = 0
        /\ Len(agents) = hist.before
        /\ \A i \in 1..Len(agents) : agents[i].age > 0

\* C26, the case: a tick of a population just above 0.6 of max_agents in which an
\* agent meets the conditions of can_reproduce.
C26_CrowdedWithRipeAgent ==
    /\ Ticked
    /\ hist.before * 10 > 6 * max_agents
    /\ hist.before < (max_agents * 8) \div 10
    /\ \E i \in 1..Len(agents) : can_reproduce(agents[i]) /\ agents[i].energy > 50 * EnergyScale


-----------------------------------------------------------------------------
(* Predators and prey: the decisions of Agent::update next to a predator,  *)
(* alone (SpecAgent) and in the agent phase of a tick (SpecPhases)         *)

\* agent i of the tick is a prey in Seeking that reaches its decision and has a
\* predator of the population within its sense range
SeekingPreyInDanger(i) ==
    /\ agents[i].state = "Seeking"
    /\ is_prey(agents[i])
    /\ ~ReturnsEarly(agents[i], Metabolism(agents[i], width, height))
    /\ FirstThreat(agents[i], agents) /= 0

\* agent r, the result of the tick for agent i, fled from the first predator in
\* range; the check after movement may have forced Reproducing on top
FledFromThreat(i, r) ==
    /\ r.state = "Fleeing" \/ (r.state = "Reproducing" /\ can_reproduce(r))
    /\ r.target_x = FleeFrom(agents[i], agents[FirstThreat(agents[i], agents)], 20).target_x
    /\ r.target_y = FleeFrom(agents[i], agents[FirstThreat(agents[i], agents)], 20).target_y

\* C27: in a tick of the engine a Seeking prey with a predator within its sense
\* range ends its decision Fleeing, its target the position mirrored away from
\* the predator and not a resource, whichever way the agent phase is evaluated.
C27_PreyFleesInTick ==
    Phased =>
        \A i \in 1..Len(agents) :
            SeekingPreyInDanger(i) =>
                /\ FledFromThreat(i, probe.sequential.agents[i])
                /\ FledFromThreat(i, probe.parallel.agents[i])

\* C27, the failing case: a Seeking prey one unit from a predator ends the tick
\* Hunting, its target a resource.
C27_PreyIgnoresPredator ==
    /\ Phased
    /\ \E i \in 1..Len(agents) :
         /\ SeekingPreyInDanger(i)
         /\ probe.sequential.agents[i].state = "Hunting"
         /\ probe.parallel.agents[i].state = "Hunting"
         /\ \E j \in 1..Len(resources) :
              /\ probe.sequential.agents[i].target_x = Some(resources[j].x)
              /\ probe.sequential.agents[i].target_y = Some(resources[j].y)

\* the target of agent a is the place of the second agent, within the interaction
\* radius of a
TargetIsAgent(a) ==
    /\ agents /= <<>>
    /\ a.target_x = Some(agents[1].x) /\ a.target_y = Some(agents[1].y)
    /\ DistSq(a.x, a.y, agents[1].x, agents[1].y) < (5 * PosScale) * (5 * PosScale)

\* C28: an agent in Hunting whose target is another agent, and that has reached
\* it, enters Fighting.
C28_HuntReachesFight ==
    (Updated /\ probe.self.state = "Hunting" /\ TargetIsAgent(probe.self)) =>
        probe.acted.state = "Fighting"

\* C28, the failing case: a predator Hunting a prey within the interaction radius
\* turns to Feeding, and its kill counter stays 0.
C28_HuntOfAgentEndsFeeding ==
    /\ Updated /\ probe.self.state = "Hunting" /\ TargetIsAgent(probe.self)
    /\ is_predator(probe.self) /\ is_prey(agents[1])
    /\ probe.acted.state = "Feeding"
    /\ probe.agent.kills = 0

\* C28, what holds instead: no update takes an agent from another state into
\* Fighting or changes its kill counter, and no agent of the engine is ever in
\* Fighting or has a kill.
C28_NeverEntersFighting ==
    (steps > 0 /\ probe.self.state /= "Fighting") =>
        /\ probe.agent.state /= "Fighting"
        /\ probe.agent.kills = probe.self.kills

C28_NoFightInEngine ==
    \A i \in 1..Len(agents) : agents[i].state /= "Fighting" /\ agents[i].kills = 0

\* the square of the distance from the agent before its update to resource j
ReachTo(j) == DistSq(resources[j].x, resources[j].y, probe.self.x, probe.self.y)

\* C29: the resource an agent in Feeding reports as consumed is, among the
\* resources within its interaction radius, the one nearest to it.
C29_FeedsOnNearest ==
    (Updated /\ probe.self.state = "Feeding" /\ probe.consumed /= None) =>
        \A j \in 1..Len(resources) : ReachTo(probe.consumed[1]) <= ReachTo(j)

\* C29, the failing case: two resources within the interaction radius, the agent
\* reports the first of the collection and the second is nearer.
C29_FedOnFirstInReach ==
    /\ Updated /\ probe.self.state = "Feeding"
    /\ Len(resources) = 2
    /\ probe.consumed = Some(1)
    /\ ReachTo(1) < (5 * PosScale) * (5 * PosScale)
    /\ ReachTo(2) < ReachTo(1)

\* C30: when an update takes a live prey out of Fleeing, it is in Seeking, its
\* target is cleared, and no predator is within its sense range.
C30_FleeEndsOutOfRange ==
    (Updated /\ probe.self.state = "Fleeing" /\ is_prey(probe.self)
       /\ probe.agent.state /= "Fleeing") =>
        /\ probe.agent.state = "Seeking"
        /\ probe.agent.target_x = None /\ probe.agent.target_y = None
        /\ FirstThreat(probe.agent, agents) = 0

\* C30, the failing case: a prey that fled from a predator 40 units away (its
\* target, mirrored, lies beyond the edge of the world) is back in Seeking one
\* update later with the predator still within its sense range.
C30_BackToSeekingNearThreat ==
    /\ steps = 2 /\ ~probe.early
    /\ probe.self.state = "Fleeing" /\ is_prey(probe.self)
    /\ probe.self.target_x /= None /\ probe.self.target_x[1] < 0
    /\ probe.agent.state = "Seeking" /\ probe.agent.target_x = None
    /\ FirstThreat(probe.agent, agents) /= 0

\* C30, further cases: a prey that fled from a predator one unit away is still
\* Fleeing an update later, steering towards its target; and a prey leaves
\* Fleeing through the check after movement, in Reproducing with its target kept.
C30_StillFleeingNearTarget ==
    /\ steps = 2 /\ ~probe.early
    /\ probe.self.state = "Fleeing" /\ is_prey(probe.self)
    /\ FirstThreat(probe.self, agents) /= 0
    /\ probe.acted.state = "Fleeing" /\ probe.acted.target_x = probe.self.target_x

C30_LeftFleeingByReproducing ==
    /\ Updated /\ probe.self.state = "Fleeing"
    /\ probe.agent.state = "Reproducing" /\ probe.agent.target_x /= None

-----------------------------------------------------------------------------
(* The early returns of Agent::update (agent.rs lines 111-124)             *)

\* TRUE when the update before this state met the death check of lines 112-124: the
\* agent was not dying yet, and its energy after the debit of line 109 is <= 0 or its
\* age after line 84 is above 200.0
DeathCheckMet ==
    /\ steps > 0 /\ ~probe.self.is_dying
    /\ \/ Metabolism(probe.self, width, height).energy <= 0
       \/ OverCeiling(probe.self.age + 1)

\* C31: an update in which the agent's energy after the metabolic debit is <= 0 or
\* its age exceeds the ceiling marks the agent dead and skips the rest: behaviour
\* state, target, position and velocity are as before the update and no consumed
\* resource is reported.
C31_DeathSkipsBehaviour ==
    DeathCheckMet =>
        /\ probe.agent.is_dying /\ probe.agent.death_reason /= None
        /\ probe.agent.state = probe.self.state
        /\ probe.agent.target_x = probe.self.target_x
        /\ probe.agent.target_y = probe.self.target_y
        /\ probe.agent.x = probe.self.x /\ probe.agent.y = probe.self.y
        /\ probe.agent.dx = probe.self.dx /\ probe.agent.dy = probe.self.dy
        /\ probe.consumed = None

\* C31, a case: an agent in Feeding with an available resource within its reach
\* starved in the update and reported nothing consumed.
C31_StarvedWhileFeeding ==
    /\ DeathCheckMet /\ probe.self.state = "Feeding"
    /\ Len(resources) > 0 /\ is_available(resources[1]) /\ ~NothingInReach(probe.self)
    /\ probe.agent.is_dying /\ probe.agent.death_reason = Some("Starvation")
    /\ probe.consumed = None

\* C31, the other case: an agent in Hunting with a target and energy left passed the
\* age ceiling and was marked dead where it stood.
C31_DiedOfAgeWhileHunting ==
    /\ DeathCheckMet /\ probe.self.state = "Hunting" /\ probe.self.target_x /= None
    /\ probe.agent.energy > 0 /\ probe.agent.death_reason = Some("OldAge")
    /\ probe.agent.x = probe.self.x

-----------------------------------------------------------------------------
(* A resource on its own, updated tick after tick and never consumed       *)
(* (src/src/resource.rs and the Resource of src/src/ecs.rs)                *)

\* Resource::update of ecs.rs (lines 651-709): the natural growth is a tenth of that
\* of resource.rs, the regeneration a fifth, and the target follows max_energy once
\* the energy has reached it
EcsResourceUpdate(r) ==
    LET spawnF == IF r.is_spawning THEN r.spawn_fade + 2 ELSE r.spawn_fade
        \* `spawn_fade >= 1.0`: the f64 sum of 30 times 2/60 is 0.9999999999999999,
        \* so the fade-in ends with the 31st addition
        spawned == r.is_spawning /\ spawnF > FadeFull
        r1 == [r EXCEPT !.age = @ + 1,
                        !.spawn_fade = IF spawned THEN FadeFull ELSE spawnF,
                        !.is_spawning = IF spawned THEN FALSE ELSE @,
                        !.deplete_fade = IF r.is_depleting THEN Min(@ + 3, FadeFull) ELSE @]
        step == (r1.growth_rate * 1000) \div TicksPerSecond
        energy_diff == r1.target_energy - r1.energy
        growth_amount == IF energy_diff > 0 THEN step ELSE -step
        e1 == IF Abs(energy_diff) > EnergyScale \div 10
              THEN (IF Abs(energy_diff) < Abs(growth_amount) THEN r1.target_energy
                    ELSE r1.energy + growth_amount)
              ELSE r1.energy
        e2 == IF e1 < r1.max_energy THEN Min(e1 + step \div 20, r1.max_energy) ELSE e1
        r3 == IF ~r1.is_spawning /\ ~r1.is_depleting
              THEN [r1 EXCEPT !.energy = e2,
                              !.target_energy = IF e2 >= r1.max_energy THEN r1.max_energy
                                                ELSE @]
              ELSE r1
        target_size == 3 * GeneScale
                       + Div((r3.energy \div 1000) * 5000, r3.max_energy \div 1000)
        size_diff == target_size - r3.size
        r4 == IF Abs(size_diff) > 100
              THEN [r3 EXCEPT !.size = @ + Div(size_diff * 2, TicksPerSecond)]
              ELSE r3
    IN  IF r4.energy < 10 * EnergyScale /\ ~r4.is_depleting
        THEN [r4 EXCEPT !.energy = @ + (r4.regeneration_rate * 200) \div TicksPerSecond]
        ELSE r4

\* the number of updates a resource is followed for
MaxResourceTicks == 1100

\* <<initial_energy, max_energy, growth_rate, regeneration_rate>> as Resource::new
\* may draw them
ResourceDraws == { <<20, 149, 1800, 499>>, <<50, 100, 1000, 300>>, <<79, 50, 1999, 499>> }

\* the condition of a resource that its update reads and writes, its age aside
ConditionOf(r) == <<r.energy, r.size, r.target_energy, r.is_spawning, r.is_depleting>>

\* Resource::new with one of the draws, or a resource that an agent has just fed on;
\* `seen` are the conditions the resource has been in since its fade-in ended
InitResource ==
    /\ Idle
    /\ \E s \in ResourceDraws, engine \in {"resource.rs", "ecs.rs"} :
         probe \in { [ fn |-> "Resource", engine |-> engine, resource |-> r, seen |-> {} ] :
                     r \in { NewResource(Points[1][1], Points[1][2], s),
                             MarkDepleting(<<SnapshotResource(1, "available")>>, Some(1))[1] } }

\* resource.update(1/60): nothing consumes the resource
UpdateResource ==
    /\ steps < MaxResourceTicks
    /\ probe' = [ probe EXCEPT
                    !.resource = IF probe.engine = "ecs.rs" THEN EcsResourceUpdate(@)
                                 ELSE ResourceUpdate(@),
                    !.seen = IF probe.resource.is_spawning THEN @
                             ELSE @ \cup {ConditionOf(probe.resource)} ]
    /\ steps' = steps + 1
    /\ UnchangedSimulation

NextResource == UpdateResource

SpecResource == InitResource /\ [][NextResource]_vars

\* C32: a resource that is never consumed finishes its fade-in and its energy then
\* grows to its target and on to max_energy, which it eventually reaches. As the
\* update is a function of the resource's condition, a resource on its way to
\* max_energy is never back in a condition it was in before while below max_energy.
C32_EnergyOnItsWayToMax ==
    (/\ ~probe.resource.is_spawning /\ ~probe.resource.is_depleting
     /\ probe.resource.energy < probe.resource.max_energy)
    => ConditionOf(probe.resource) \notin probe.seen

\* C32, the failing case: a visible resource is back in a condition it was in
\* before, with its energy within 1.0 of its target and far below max_energy.
C32_HoversAtTarget ==
    /\ ~probe.resource.is_spawning /\ ~probe.resource.is_depleting
    /\ ConditionOf(probe.resource) \in probe.seen
    /\ Abs(probe.resource.energy - probe.resource.target_energy) < EnergyScale
    /\ probe.resource.max_energy - probe.resource.energy > 100 * EnergyScale

\* C32, what does hold: the fade-in ends with the 31st update and the energy then rises
\* until it is within 0.1 of the target.
C32_GrowsToTarget ==
    /\ steps >= 31 => ~probe.resource.is_spawning
    /\ (/\ steps > 0 /\ ~probe.resource.is_depleting
        /\ probe.resource.energy < probe.resource.target_energy - EnergyScale \div 10)
       => ConditionOf(probe.resource) \notin probe.seen

-----------------------------------------------------------------------------
(* The end of a resource: the mark, the deplete fade and the cleanup       *)

\* TRUE when the deplete fade of resource r has completed
FadedOut(r) == r.is_depleting /\ r.deplete_fade >= FadeFull

\* C33: a resource that is marked depleting is removed from the live set once its
\* deplete fade has completed, and none is removed before: after a tick no resource
\* of the collection has a completed deplete fade, and the tick removed no resource
\* whose fade had not completed.
C33_RemovedOnceFaded ==
    Ticked =>
        /\ \A k \in 1..Len(resources) : ~FadedOut(resources[k])
        /\ hist.unfaded_removed = 0

\* C33, the failing case: a tick that returned at the reproduction gate left a
\* resource whose deplete fade has completed in the collection.
C33_FadedLeftBehind ==
    /\ Ticked /\ ~hist.gate
    /\ \E k \in 1..Len(resources) : FadedOut(resources[k])

\* C33, what does hold: a tick that reaches the cleanup pass removes the resources
\* whose fade has completed and no others.
C33_RemovedWhenCleanupRuns ==
    (Ticked /\ hist.gate) =>
        /\ \A k \in 1..Len(resources) : ~FadedOut(resources[k])
        /\ hist.unfaded_removed = 0

\* C33, the fade: the deplete fade of a marked resource completes with the 20th
\* update after the mark.
C33_FadeTakesTwentyTicks ==
    (probe.fn = "Resource" /\ probe.resource.is_depleting)
    => (FadedOut(probe.resource) <=> steps >= 20)

-----------------------------------------------------------------------------
(* The rebuild of the spatial index                                        *)

\* the cell under the point (x, y), clamped to the cells of the grid
ClampedCell(x, y) ==
    << Max(0, Min(x \div grid_cell_size, grid_width - 1)),
       Max(0, Min(y \div grid_cell_size, grid_height - 1)) >>

\* how often index i is stored in cell c of the index
TimesIn(i, c) == Cardinality({ j \in 1..Len(spatial_grid[c]) : spatial_grid[c][j] = i })

\* C34: after a rebuild every index of the agent collection is stored once, in the
\* cell under the agent's position clamped to the valid cell range, and in no other
\* cell; no cell holds any other index; and no position, inside the world or outside
\* it, addresses a cell outside the grid.
C34_RebuildExact ==
    probe.fn = "update_spatial_grid" =>
        /\ DOMAIN spatial_grid = Cells
        /\ \A i \in 1..Len(agents) :
             /\ get_grid_position(agents[i].x, agents[i].y) \in Cells
             /\ \A c \in Cells :
                  TimesIn(i, c) = IF c = ClampedCell(agents[i].x, agents[i].y) THEN 1 ELSE 0
        /\ \A c \in Cells : \A j \in 1..Len(spatial_grid[c]) :
             spatial_grid[c][j] \in 1..Len(agents)

\* C34, the case: the index held stale entries, one agent stands left of the world
\* and one beyond its right and lower edges; after the rebuild they are in the first
\* column and in the last cell.
C34_OutsidersClamped ==
    /\ probe.fn = "update_spatial_grid" /\ probe.before = StaleGrid
    /\ agents[1].x < 0 /\ agents[2].x > width /\ agents[2].y >= height
    /\ InSeq(1, spatial_grid[<<0, agents[1].y \div grid_cell_size>>])
    /\ InSeq(2, spatial_grid[<<grid_width - 1, grid_height - 1>>])

-----------------------------------------------------------------------------
(* Who takes part in the reproduction pass                                 *)

\* the record of the pass agrees with its result: one birth for every offspring
BirthsAsCreated == Ticked => Len(hist.births) = hist.offspring

\* the parents and the mates of the births of the tick
Initiators == { hist.births[j].parent : j \in 1..Len(hist.births) }
Mates == { hist.births[j].mate : j \in 1..Len(hist.births) }

\* C36: an agent that was marked dead in a tick, by energy <= 0 or by its age, takes
\* no part in the reproduction pass of that tick: it neither initiates an offspring
\* nor is chosen as a mate.
C36_DeadTakeNoPart ==
    Ticked => (Initiators \cup Mates) \cap hist.marked = {}

\* C36, the failing case: an agent that its update marked dead of old age initiated
\* an offspring in the pass of the same tick.
C36_DyingAgentInitiates ==
    /\ Ticked /\ hist.gate
    /\ \E i \in Initiators : i \in hist.marked /\ i \notin hist.starved

\* C36, the failing case for mates: an agent marked dead in the tick was chosen as
\* the mate of another agent.
C36_DyingAgentChosenAsMate ==
    Ticked /\ \E j \in 1..Len(hist.births) :
        hist.births[j].mate \in hist.marked /\ hist.births[j].parent \notin hist.marked

\* C36, what does hold: an agent that starved in the tick takes no part in the pass.
C36_StarvedTakeNoPart ==
    Ticked => (Initiators \cup Mates) \cap hist.starved = {}


\* TRUE of a step that is a tick following a tick
TickAfterTick == hist.op = "update" /\ hist'.op = "update" /\ steps' = steps + 1

\* the agents that initiate an offspring in the tick of the step, by start-of-tick index
InitiatorsNext == { hist'.births[j].parent : j \in 1..Len(hist'.births) }

\* C35: the reproduction cooldown holds across ticks: an agent that initiated an
\* offspring in the pass of one tick runs the Reproducing action in the next tick
\* (70% of its energy left, cooldown reset) and initiates no offspring in it, and
\* whoever initiates an offspring last ran that action more than 60 ticks before.
C35_CooldownAcrossTicks ==
    /\ [][TickAfterTick =>
            \A i \in hist.parents : i \in hist'.reproduced /\ i \notin InitiatorsNext]_vars
    /\ [](Ticked => \A j \in 1..Len(hist.births) : hist.births[j].since > TicksPerSecond)

\* C35, the failing case: the agent at index 1 initiated an offspring in the tick
\* before, was marked dead of old age in this tick without running the Reproducing
\* action, and initiated another offspring in the pass of this tick.
C35_InitiatedInBothTicks ==
    /\ Ticked /\ steps = 2 /\ 1 \in hist.marked /\ 1 \notin hist.reproduced
    /\ \E j \in 1..Len(hist.births) :
         hist.births[j].parent = 1 /\ hist.births[j].since > 200 * TicksPerSecond - 1

\* C35, what does hold: an initiator that the next tick does not mark dead runs the
\* Reproducing action in that tick and initiates no offspring in it.
C35_LiveParentsCoolDown ==
    [][TickAfterTick =>
         \A i \in hist.parents \ hist'.marked :
             i \in hist'.reproduced /\ i \notin InitiatorsNext]_vars

\* C35, the case of C35_LiveParentsCoolDown: an initiator of the tick before ran the
\* Reproducing action in this tick.
C35_ParentRanReproduce ==
    /\ Ticked /\ steps = 2 /\ hist.gate /\ hist.reproduced /= {}
    /\ hist.marked = {} /\ Len(agents) > 3

-----------------------------------------------------------------------------
(* Feeding on a shared resource                                            *)

\* the feeding events of the tick in which the agent gained energy
Gains == { j \in 1..Len(hist.feeds) : hist.feeds[j].gained > 0 }

\* C37: within one tick at most one agent gains feeding energy from a given
\* resource: once an agent has consumed a resource, no agent updated later in the
\* same tick gains energy from it.
C37_OneFeederPerResource ==
    Ticked =>
        \A j1 \in Gains, j2 \in Gains :
            hist.feeds[j1].resource = hist.feeds[j2].resource => j1 = j2

\* C37, the failing case: in a sequential agent phase a second agent gained energy
\* from a resource that an earlier agent had consumed, and that was marked depleting,
\* in the same tick.
C37_SecondFeederGained ==
    /\ Ticked /\ ~hist.parallel
    /\ \E j1 \in Gains, j2 \in Gains :
         /\ hist.feeds[j1].agent < hist.feeds[j2].agent
         /\ hist.feeds[j1].resource = hist.feeds[j2].resource
         /\ hist.feeds[j1].available /\ ~hist.feeds[j2].available

-----------------------------------------------------------------------------
(* The energy of the resources at the end of a tick                        *)

\* C38: at the end of every tick every resource of the live set has
\* 0 <= energy <= max_energy.
C38_ResourceEnergyWithinBounds ==
    Ticked =>
        \A k \in 1..Len(resources) :
            0 <= resources[k].energy /\ resources[k].energy <= resources[k].max_energy

\* C38, the failing case: a resource that spawned in the tick, with energy 0.0, ends
\* the tick below 0 after the redistribution of the calculations.
C38_SpawnedBelowZero ==
    /\ Ticked /\ hist.gate
    /\ \E k \in 1..Len(resources) :
         resources[k].age = 0 /\ resources[k].is_spawning /\ resources[k].energy < 0

\* C38, the upper bound: a resource on its own whose target_energy was drawn above
\* its max_energy grows past max_energy by its updates alone.
C38_GrownAboveMax ==
    /\ probe.fn = "Resource" /\ ~probe.resource.is_depleting
    /\ probe.resource.target_energy > probe.resource.max_energy
    /\ probe.resource.energy > probe.resource.max_energy + EnergyScale

-----------------------------------------------------------------------------
(* The availability flag after set_rayon_initialized                        *)

\* C39: after set_rayon_initialized(b), is_rayon_available() returns b: true after
\* set_rayon_initialized(true) and false after set_rayon_initialized(false).
C39_FlagFollowsInitialisation ==
    hist.op = "set_rayon_initialized" => (is_rayon_available <=> RAYON_INITIALIZED)

\* C39, the failing case: set_rayon_initialized(true) has just run and
\* is_rayon_available() still returns false.
C39_InitialisedButUnavailable ==
    /\ hist.op = "set_rayon_initialized"
    /\ RAYON_INITIALIZED
    /\ ~is_rayon_available

\* C39, the part that holds: after set_rayon_initialized(false),
\* is_rayon_available() returns false.
C39_UnavailableAfterFailure ==
    (hist.op = "set_rayon_initialized" /\ ~RAYON_INITIALIZED) => ~is_rayon_available

\* C39, the consequence: no tick of the build takes the parallel path, whatever the
\* calls of set_rayon_initialized before it.
C39_NoTickOnThePool ==
    Ticked => ~hist.parallel

-----------------------------------------------------------------------------
(* The population that HeadlessSimulation::new returns                      *)

\* the second seeding loop of new() has a turn to take and the turn changes nothing
ResourceSeedingStuck ==
    /\ probe.at = "resources"
    /\ Len(resources) < probe.config.initial_resources
    /\ ~UnderCap(Len(resources), probe.config.max_resources)

\* new() has returned and run() has not been called yet
Seeded == probe.fn = "HeadlessSimulation" /\ probe.at = "returned" /\ probe.runs = 0

\* C40: HeadlessSimulation::new(config) terminates for every configuration, and
\* the simulation it returns holds exactly config.initial_agents agents and
\* config.initial_resources resources.
C40_NewReturnsSeeded ==
    probe.fn = "HeadlessSimulation" =>
        /\ ~SeedingStuck
        /\ ~ResourceSeedingStuck
        /\ probe.at /= "panicked"
        /\ Seeded => /\ Len(agents) = probe.config.initial_agents
                     /\ Len(resources) = probe.config.initial_resources

\* C40, the failing case: initial_resources is above max_resources; the agents are
\* seeded, the simulation holds max_resources resources and new() is still in its
\* second seeding loop, whose every further turn adds nothing.
C40_ResourceSeedingNeverEnds ==
    /\ ResourceSeedingStuck
    /\ probe.config.initial_resources > probe.config.max_resources
    /\ Len(agents) = probe.config.initial_agents
    /\ Len(resources) = probe.config.max_resources

\* C40, the part that holds: whenever new() returns, the simulation holds exactly
\* the configured initial counts.
C40_ReturnedWithInitialCounts ==
    Seeded => /\ Len(agents) = probe.config.initial_agents
              /\ Len(resources) = probe.config.initial_resources

\* C40: new() has returned a simulation with a population that is not empty
C40_SeededSomething ==
    Seeded /\ Len(agents) > 0 /\ Len(resources) > 0

====
